---- MODULE Spec2Model ----
(***************************************************************************)
(* The sn_relationships tool of servicenow-mcp: the CMDB relationship      *)
(* traversal of src/src/tools/relationships.ts, run against a remote       *)
(* store (the ServiceNow Table API behind src/src/client.ts).              *)
(*                                                                         *)
(* A JavaScript string is a sequence of one-character strings, so that     *)
(* toLowerCase and includes are computed, not assumed.  The code between   *)
(* two awaits of a remote call runs without interruption (one JavaScript   *)
(* task), so one action is: a request arrives, or the response of the      *)
(* outstanding remote call of a request arrives, followed by everything    *)
(* the handler does until it issues its next remote call or returns.       *)
(* The write tools sn_delete, sn_batch and sn_nl are modelled the same way *)
(* further down, with the requests they issue to the store.                *)
(***************************************************************************)
EXTENDS Integers, Sequences, FiniteSets, TLC

VARIABLES
    rows,        \* remote table cmdb_rel_ci, in the order the store lists it
    listing,     \* the ids of remote table cmdb_ci, in the order the store lists it
    faults,      \* remote calls that fail or answer without a body
    config,      \* ServiceNowConfig (relDepth)
    arrival,     \* how the client sends its requests: "serial" or "overlap"
    args,        \* per request: the arguments of the call
    pc,          \* per request: where the handler is suspended
    maxDepth,    \* per request: const maxDepth
    direction,   \* per request: let direction
    root,        \* per request: rootId, rootName, rootClass
    visited,     \* per request: const visited
    classCache,  \* per request: const classCache
    allRels,     \* per request: const allRels
    origin,      \* per request: for each entry of allRels, the currentId and
                 \* the index of the row of the traverse call that pushed it
    stack,       \* per request: the active traverse calls, innermost first
    calls,       \* per request: the client calls issued so far
    result,      \* per request: what the handler returned
    fieldIn,     \* a field of a record, handed to extractValue and extractDisplay
    extracted    \* what the two return for it

vars == <<rows, listing, faults, config, arrival, args, pc, maxDepth, direction, root,
          visited, classCache, allRels, origin, stack, calls, result, fieldIn, extracted>>

(***************************************************************************)
(* Strings                                                                 *)
(***************************************************************************)
UpperCase == <<"A","B","C","D","E","F","G","H","I","J","K","L","M",
               "N","O","P","Q","R","S","T","U","V","W","X","Y","Z">>
LowerCase == <<"a","b","c","d","e","f","g","h","i","j","k","l","m",
               "n","o","p","q","r","s","t","u","v","w","x","y","z">>

toLowerCase(s) ==
    [i \in DOMAIN s |->
        IF \E k \in DOMAIN UpperCase : UpperCase[k] = s[i]
        THEN LowerCase[CHOOSE k \in DOMAIN UpperCase : UpperCase[k] = s[i]]
        ELSE s[i]]

includes(s, t) ==
    \E k \in 0..(Len(s) - Len(t)) : SubSeq(s, k + 1, k + Len(t)) = t

\* JavaScript truthiness of a string
truthy(s) == s # <<>>

\* a || b on strings
orElse(a, b) == IF truthy(a) THEN a ELSE b

Server    == <<"S","e","r","v","e","r">>
Switch    == <<"S","w","i","t","c","h">>
unknown   == <<"u","n","k","n","o","w","n">>
RelatedTo == <<"R","e","l","a","t","e","d"," ","t","o">>
RunsOn    == <<"R","u","n","s"," ","o","n">>
Uses      == <<"U","s","e","s">>

(***************************************************************************)
(* The remote store                                                        *)
(***************************************************************************)
A == <<"A">>
B == <<"B">>
C == <<"C">>
N == <<"N">>
Z == <<"Z">>
D == <<"D">>

NodeSeq == <<A, B, C>>
NodeIds == {NodeSeq[k] : k \in DOMAIN NodeSeq}
TypeSeq == <<RunsOn, Uses>>

\* D..H are further records with the name of A
TwinSeq == <<D, <<"E">>, <<"F">>, <<"G">>, <<"H">>>>
TwinIds == {TwinSeq[k] : k \in DOMAIN TwinSeq}

\* table cmdb_ci: N is a record without a name, Z is no record at all
CiIds == NodeIds \cup TwinIds \cup {N}
cmdb_ci ==
    [id \in CiIds |->
        CASE id = A -> [sys_id |-> A, name |-> <<"w","e","b">>, sys_class_name |-> Server]
          [] id = B -> [sys_id |-> B, name |-> <<"s","w">>, sys_class_name |-> Switch]
          [] id = C -> [sys_id |-> C, name |-> <<"d","b">>, sys_class_name |-> Server]
          [] id = N -> [sys_id |-> N, name |-> <<>>, sys_class_name |-> Server]
          [] OTHER  -> [sys_id |-> id, name |-> <<"w","e","b">>, sys_class_name |-> Switch]]

\* the order in which the store lists cmdb_ci unless stated otherwise
Listing == NodeSeq \o TwinSeq

\* a reference field as the Table API sends it with sysparm_display_value=all
\* (id is the store's own key of the referenced record, which no code reads)
Ref(id) ==
    [shape |-> "object", id |-> id, value |-> id,
     display_value |-> IF id \in CiIds THEN cmdb_ci[id].name ELSE <<>>,
     link |-> <<"x", "/">> \o id]

\* the same reference as a bare id, with a link and no value, and with
\* neither value nor link
RefString(id) == [shape |-> "string", id |-> id, str |-> id]
RefLink(id)   == [Ref(id) EXCEPT !.value = <<>>]
RefBlank(id)  == [Ref(id) EXCEPT !.value = <<>>, !.link = <<>>]

TypeRef(t) ==
    [shape |-> "object", value |-> t, display_value |-> t, link |-> <<>>]

Row(p, c, t) == [parent |-> Ref(p), child |-> Ref(c), type |-> TypeRef(t)]

RowLimit == 100

Min(a, b) == IF a < b THEN a ELSE b
Max(a, b) == IF a > b THEN a ELSE b

\* what the store answers to one client.get: status "error" makes client.get
\* throw (client.ts request), hasResult says whether the body has a result
Fails(call, key)  == [call |-> call, key |-> key, how |-> "throws"] \in faults
NoBody(call, key) == [call |-> call, key |-> key, how |-> "empty"] \in faults

\* the relationship query without sysparm_limit
RelQuery_NoLimit(id) ==
    IF Fails("rel", id) THEN [status |-> "error"]
    ELSE IF NoBody("rel", id) THEN [status |-> "ok", hasResult |-> FALSE]
    ELSE LET hit(r) == r.parent.id = id \/ r.child.id = id
         IN  [status |-> "ok", hasResult |-> TRUE, result |-> SelectSeq(rows, hit)]

\* GET /api/now/table/cmdb_rel_ci?sysparm_query=parent=id^ORchild=id&sysparm_limit=100
RelQuery(id) ==
    IF Fails("rel", id) THEN [status |-> "error"]
    ELSE IF NoBody("rel", id) THEN [status |-> "ok", hasResult |-> FALSE]
    ELSE LET hit(r) == r.parent.id = id \/ r.child.id = id
             sel == SelectSeq(rows, hit)
         IN  [status |-> "ok", hasResult |-> TRUE,
              result |-> SubSeq(sel, 1, Min(Len(sel), RowLimit))]

\* GET /api/now/table/cmdb_ci/{id}
CiGet(id) ==
    IF Fails("ci", id) \/ id \notin CiIds THEN [status |-> "error"]
    ELSE IF NoBody("ci", id) THEN [status |-> "ok", hasResult |-> FALSE]
    ELSE [status |-> "ok", hasResult |-> TRUE, result |-> cmdb_ci[id]]

CandidateLimit == 5

\* GET /api/now/table/cmdb_ci?sysparm_query=name=...&sysparm_limit=5
CiQuery(name) ==
    IF Fails("name", name) THEN [status |-> "error"]
    ELSE IF NoBody("name", name) THEN [status |-> "ok", hasResult |-> FALSE]
    ELSE LET all == [k \in DOMAIN listing |-> cmdb_ci[listing[k]]]
             hit(ci) == ci.name = name
             sel == SelectSeq(all, hit)
         IN  [status |-> "ok", hasResult |-> TRUE,
              result |-> SubSeq(sel, 1, Min(Len(sel), CandidateLimit))]

(***************************************************************************)
(* relationships.ts: the helpers of handler                                *)
(***************************************************************************)
RECURSIVE lastSegment(_)
lastSegment(s) ==
    IF s = <<>> THEN <<>>
    ELSE IF s[Len(s)] = "/" THEN <<>>
    ELSE Append(lastSegment(SubSeq(s, 1, Len(s) - 1)), s[Len(s)])

\* extractValue returning the link itself
extractValue_WholeLink(field) ==
    IF field.shape = "null" THEN <<>>
    ELSE IF field.shape = "string" THEN field.str
    ELSE IF field.shape # "object" THEN <<>>
    ELSE IF truthy(field.value) THEN field.value
    ELSE IF truthy(field.link) THEN field.link
    ELSE <<>>

\* lines 133-146; shape is what typeof and !field tell of the field: "null"
\* (null, undefined, ""), "string", "object", "other" (number, boolean)
extractValue(field) ==
    IF field.shape = "null" THEN <<>>
    ELSE IF field.shape = "string" THEN field.str
    ELSE IF field.shape # "object" THEN <<>>
    ELSE IF truthy(field.value) THEN field.value
    ELSE IF truthy(field.link) THEN lastSegment(field.link)
    ELSE <<>>

SysIdLength == 32
HexDigits == {"a","b","c","d","e","f","0","1","2","3","4","5","6","7","8","9"}
\* the pattern without its length
isSysId_AnyLength(s) == \A k \in DOMAIN s : s[k] \in HexDigits

\* /^[a-f0-9]{32}$/.test(s)
isSysId(s) == Len(s) = SysIdLength /\ \A k \in DOMAIN s : s[k] \in HexDigits

extractDisplay(field) ==
    IF field.shape = "null" THEN <<>>
    ELSE IF field.shape = "string"
         THEN IF isSysId(field.str) THEN <<>> ELSE field.str
    ELSE IF field.shape # "object" THEN <<>>
    ELSE IF truthy(field.display_value) THEN field.display_value
    ELSE <<>>

MinDepth == 1
MaxDepth == 5

\* the clamp without its lower bound
clampDepth_NoLower(depth, relDepth) ==
    Min(IF depth = <<>> THEN relDepth ELSE depth[1], MaxDepth)

\* the clamp without its upper bound
clampDepth_NoUpper(depth, relDepth) ==
    Max(IF depth = <<>> THEN relDepth ELSE depth[1], MinDepth)

\* Math.min(Math.max(args.depth ?? config.relDepth, 1), 5)
clampDepth(depth, relDepth) ==
    Min(Max(IF depth = <<>> THEN relDepth ELSE depth[1], MinDepth), MaxDepth)

\* the direction with impact left unread
effectiveDirection_NoImpact(a) == a.direction

\* let direction = args.direction; if (args.impact) direction = "upstream"
effectiveDirection(a) == IF a.impact THEN "upstream" ELSE a.direction

(***************************************************************************)
(* relationships.ts: traverse                                              *)
(***************************************************************************)
\* the record read with the two directions exchanged
rowView_Swapped(rec, currentId) ==
    LET parentId   == extractValue(rec.parent)
        childId    == extractValue(rec.child)
        parentName == extractDisplay(rec.parent)
        childName  == extractDisplay(rec.child)
        typeName   == orElse(extractDisplay(rec.type), RelatedTo)
    IN  IF parentId = currentId
        THEN [role |-> "parent", otherId |-> childId, otherName |-> childName,
              relDir |-> "upstream", typeName |-> typeName]
        ELSE IF childId = currentId
        THEN [role |-> "child", otherId |-> parentId, otherName |-> parentName,
              relDir |-> "downstream", typeName |-> typeName]
        ELSE [role |-> "none", otherId |-> <<>>, otherName |-> <<>>,
              relDir |-> "none", typeName |-> typeName]

\* lines 181-201: the record as traverse reads it while expanding currentId
rowView(rec, currentId) ==
    LET parentId   == extractValue(rec.parent)
        childId    == extractValue(rec.child)
        parentName == extractDisplay(rec.parent)
        childName  == extractDisplay(rec.child)
        typeName   == orElse(extractDisplay(rec.type), RelatedTo)
    IN  IF parentId = currentId
        THEN [role |-> "parent", otherId |-> childId, otherName |-> childName,
              relDir |-> "downstream", typeName |-> typeName]
        ELSE IF childId = currentId
        THEN [role |-> "child", otherId |-> parentId, otherName |-> parentName,
              relDir |-> "upstream", typeName |-> typeName]
        ELSE [role |-> "none", otherId |-> <<>>, otherName |-> <<>>,
              relDir |-> "none", typeName |-> typeName]

\* the self-loop check left out
selfLoop_Off(otherId, currentId) == FALSE

\* if (otherId === currentId) continue
selfLoop(otherId, currentId) == otherId = currentId

\* the direction filter without its exception for "both"
directionSkips_NoBoth(dir, relDir) == relDir # dir

\* if (direction !== "both" && relDir !== direction) continue
directionSkips(dir, relDir) == dir # "both" /\ relDir # dir

\* the type filter left out
typeSkips_Off(type, typeName) == FALSE

\* if (args.type && !typeName.toLowerCase().includes(args.type.toLowerCase())) continue
typeSkips(type, typeName) ==
    truthy(type) /\ ~includes(toLowerCase(typeName), toLowerCase(type))

\* const pairKey = `${otherId}:${relDir}`
pairKey(otherId, relDir) == <<otherId, relDir>>

\* if (!args.class || otherClass.toLowerCase().includes(args.class.toLowerCase()))
classShows(class, otherClass) ==
    ~truthy(class) \/ includes(toLowerCase(otherClass), toLowerCase(class))

\* shouldRecurse without the visited test
shouldRecurse_NoVisited(currentDepth, max, seenNodes, otherId) ==
    currentDepth < max

\* if (currentDepth < maxDepth && !visited.has(otherId))
shouldRecurse(currentDepth, max, seenNodes, otherId) ==
    currentDepth < max /\ otherId \notin seenNodes

\* if (currentDepth > maxDepth) return
tooDeep(currentDepth, max) == currentDepth > max

\* skips without the test of seen
skips_NoSeen(v, f, env) ==
    \/ v.role = "none"
    \/ selfLoop(v.otherId, f.currentId)
    \/ directionSkips(env.direction, v.relDir)
    \/ typeSkips(env.args.type, v.typeName)

\* lines 191-208: the tests that make the loop skip the row at index i
skips(v, f, env) ==
    \/ v.role = "none"
    \/ selfLoop(v.otherId, f.currentId)
    \/ directionSkips(env.direction, v.relDir)
    \/ typeSkips(env.args.type, v.typeName)
    \/ pairKey(v.otherId, v.relDir) \in f.seen

mapSet(m, k, x) == [y \in DOMAIN m \cup {k} |-> IF y = k THEN x ELSE m[y]]

\* the innermost traverse call moves on to its next record
advance(ctx) == [ctx EXCEPT !.stack[1].i = @ + 1]

\* the result with meta.depth the deepest level that gave an edge
finish_DeepestReached(ctx, env) ==
    [ctx EXCEPT !.pc = "done",
                !.result = [isError |-> FALSE,
                            root |-> env.root,
                            relationships |-> ctx.allRels,
                            meta |-> [depth |-> IF ctx.allRels = <<>> THEN 0
                                                ELSE ctx.allRels[Len(ctx.allRels)].depth,
                                      direction |-> env.direction,
                                      total |-> Len(ctx.allRels)]]]

\* lines 235-239: return ok({root, relationships, meta})
finish(ctx, env) ==
    [ctx EXCEPT !.pc = "done",
                !.result = [isError |-> FALSE,
                            root |-> env.root,
                            relationships |-> ctx.allRels,
                            meta |-> [depth |-> env.maxDepth,
                                      direction |-> env.direction,
                                      total |-> Len(ctx.allRels)]]]

RECURSIVE loop(_, _), afterClass(_, _, _), traverse(_, _, _, _)

\* lines 162-175: traverse(currentId, currentDepth) up to its await client.get
traverse(ctx, env, currentId, currentDepth) ==
    IF tooDeep(currentDepth, env.maxDepth) THEN loop(ctx, env)
    ELSE [ctx EXCEPT
            !.stack = <<[currentId |-> currentId, currentDepth |-> currentDepth,
                         records |-> <<>>, i |-> 1, seen |-> {}]>> \o @,
            !.calls = Append(@, [call |-> "rel", key |-> currentId,
                                 depth |-> currentDepth,
                                 from |-> IF ctx.stack = <<>> THEN <<>>
                                          ELSE ctx.stack[1].currentId]),
            !.pc = "rel"]

\* the push with the depth counted from 0
pushEdge_ZeroBased(ctx, otherClass) ==
    LET f == ctx.stack[1]
        v == rowView(f.records[f.i], f.currentId)
    IN  [ctx EXCEPT
            !.allRels = Append(@,
                [name |-> orElse(v.otherName, v.otherId),
                 class |-> otherClass,
                 type |-> v.typeName,
                 direction |-> v.relDir,
                 sys_id |-> v.otherId,
                 depth |-> f.currentDepth - 1]),
            !.origin = Append(@, [currentId |-> f.currentId, i |-> f.i])]

\* the push that puts the edge at the front of the list
pushEdge_Prepend(ctx, otherClass) ==
    LET f == ctx.stack[1]
        v == rowView(f.records[f.i], f.currentId)
    IN  [ctx EXCEPT
            !.allRels = <<[name |-> orElse(v.otherName, v.otherId),
                           class |-> otherClass,
                           type |-> v.typeName,
                           direction |-> v.relDir,
                           sys_id |-> v.otherId,
                           depth |-> f.currentDepth]>> \o @,
            !.origin = <<[currentId |-> f.currentId, i |-> f.i]>> \o @]

\* lines 215-222: allRels.push({...}) for the record at index i
pushEdge(ctx, otherClass) ==
    LET f == ctx.stack[1]
        v == rowView(f.records[f.i], f.currentId)
    IN  [ctx EXCEPT
            !.allRels = Append(@,
                [name |-> orElse(v.otherName, v.otherId),
                 class |-> otherClass,
                 type |-> v.typeName,
                 direction |-> v.relDir,
                 sys_id |-> v.otherId,
                 depth |-> f.currentDepth]),
            !.origin = Append(@, [currentId |-> f.currentId, i |-> f.i])]

\* afterClass with the recursion inside the class filter's if block
afterClass_FilterFrontier(ctx, env, otherClass) ==
    LET f == ctx.stack[1]
        v == rowView(f.records[f.i], f.currentId)
    IN  IF classShows(env.args.class, otherClass)
        THEN LET ctx1 == pushEdge(ctx, otherClass) IN
             IF shouldRecurse(f.currentDepth, env.maxDepth, ctx1.visited, v.otherId)
             THEN traverse([advance(ctx1) EXCEPT !.visited = @ \cup {v.otherId}],
                           env, v.otherId, f.currentDepth + 1)
             ELSE loop(advance(ctx1), env)
        ELSE loop(advance(ctx), env)

\* afterClass without visited.add before the recursion
afterClass_NoMark(ctx, env, otherClass) ==
    LET f    == ctx.stack[1]
        v    == rowView(f.records[f.i], f.currentId)
        ctx1 == IF classShows(env.args.class, otherClass)
                THEN pushEdge(ctx, otherClass)
                ELSE ctx
    IN  IF shouldRecurse(f.currentDepth, env.maxDepth, ctx1.visited, v.otherId)
        THEN traverse(advance(ctx1), env, v.otherId, f.currentDepth + 1)
        ELSE loop(advance(ctx1), env)

\* lines 213-229, once otherClass is known for the record at index i
afterClass(ctx, env, otherClass) ==
    LET f    == ctx.stack[1]
        v    == rowView(f.records[f.i], f.currentId)
        ctx1 == IF classShows(env.args.class, otherClass)
                THEN pushEdge(ctx, otherClass)
                ELSE ctx
    IN  IF shouldRecurse(f.currentDepth, env.maxDepth, ctx1.visited, v.otherId)
        THEN traverse([advance(ctx1) EXCEPT !.visited = @ \cup {v.otherId}],
                      env, v.otherId, f.currentDepth + 1)
        ELSE loop(advance(ctx1), env)

\* lines 180-211: the for loop of the innermost traverse call, from its record
\* at index i, until a remote call is issued or the handler returns
loop(ctx, env) ==
    IF ctx.stack = <<>> THEN finish(ctx, env)
    ELSE LET f    == ctx.stack[1]
             \* the records from index i on that no continue skips (seen does not
             \* change while records are skipped)
             live == {j \in f.i..Len(f.records) :
                        ~skips(rowView(f.records[j], f.currentId), f, env)}
         IN
         IF live = {}
         THEN loop([ctx EXCEPT !.stack = Tail(@)], env)
         ELSE LET j    == CHOOSE j \in live : \A k \in live : j <= k
                  v    == rowView(f.records[j], f.currentId)
                  ctx1 == [ctx EXCEPT !.stack[1].i = j,
                                      !.stack[1].seen =
                                          @ \cup {pairKey(v.otherId, v.relDir)}]
              IN       IF v.otherId \in DOMAIN ctx1.classCache
                       THEN afterClass(ctx1, env, ctx1.classCache[v.otherId])
                       ELSE [ctx1 EXCEPT
                                !.calls = Append(@, [call |-> "ci", key |-> v.otherId,
                                                     depth |-> f.currentDepth,
                                                     from |-> f.currentId]),
                                !.pc = "class"]

(***************************************************************************)
(* relationships.ts: handler, one action per task of the event loop        *)
(***************************************************************************)
Reqs == {"r1", "r2", "r3"}

\* the handler's locals with visited kept in one set for all calls
ctxOf_SharedVisited(r) ==
    [stack |-> stack[r], visited |-> UNION {visited[q] : q \in Reqs},
     classCache |-> classCache[r],
     allRels |-> allRels[r], origin |-> origin[r], calls |-> calls[r],
     pc |-> pc[r], result |-> result[r]]

\* lines 113-115: the locals of the call of handler for request r
ctxOf(r) ==
    [stack |-> stack[r], visited |-> visited[r], classCache |-> classCache[r],
     allRels |-> allRels[r], origin |-> origin[r], calls |-> calls[r],
     pc |-> pc[r], result |-> result[r]]

envOf(r) ==
    [args |-> args[r], maxDepth |-> maxDepth[r], direction |-> direction[r],
     root |-> root[r]]

commit(r, ctx) ==
    /\ stack' = [stack EXCEPT ![r] = ctx.stack]
    /\ visited' = [visited EXCEPT ![r] = ctx.visited]
    /\ classCache' = [classCache EXCEPT ![r] = ctx.classCache]
    /\ allRels' = [allRels EXCEPT ![r] = ctx.allRels]
    /\ origin' = [origin EXCEPT ![r] = ctx.origin]
    /\ calls' = [calls EXCEPT ![r] = ctx.calls]
    /\ pc' = [pc EXCEPT ![r] = ctx.pc]
    /\ result' = [result EXCEPT ![r] = ctx.result]

\* utils.ts err(message)
err(text, about) == [isError |-> TRUE, text |-> text, about |-> about]

fail(ctx, text, about) == [ctx EXCEPT !.pc = "done", !.result = err(text, about)]

\* if (!args.ci_name && !args.sys_id) return err(...)
rootMissing(a) == ~truthy(a.ci_name) /\ ~truthy(a.sys_id)

\* lines 71-102: the handler is called and runs up to its first await
Invoke(r) ==
    /\ pc[r] = "idle"
    /\ arrival = "overlap" \/ \A q \in Reqs : pc[q] \in {"off", "idle", "done"}
    /\ LET a   == args[r]
           ctx == ctxOf(r)
       IN  IF rootMissing(a)
           THEN /\ commit(r, fail(ctx, "Either ci_name or sys_id is required", <<>>))
                /\ UNCHANGED <<maxDepth, direction>>
           ELSE /\ maxDepth' = [maxDepth EXCEPT ![r] = clampDepth(a.depth, config.relDepth)]
                /\ direction' = [direction EXCEPT ![r] = effectiveDirection(a)]
                /\ commit(r, [ctx EXCEPT
                        !.pc = "root",
                        !.calls = Append(@,
                            IF truthy(a.sys_id)
                            THEN [call |-> "ci", key |-> a.sys_id, depth |-> 0,
                                  from |-> <<>>]
                            ELSE [call |-> "name", key |-> a.ci_name, depth |-> 0,
                                  from |-> <<>>])])
    /\ UNCHANGED <<rows, listing, fieldIn, extracted, faults, config, arrival, args, root>>

\* resolveRoot without the test of the record's name
resolveRoot_NoNameTest(a) ==
    IF truthy(a.sys_id)
    THEN LET resp == CiGet(a.sys_id) IN
         IF resp.status = "error" THEN [kind |-> "threw"]
         ELSE IF ~resp.hasResult
         THEN [kind |-> "missing", text |-> "CI not found with sys_id: ", about |-> a.sys_id]
         ELSE [kind |-> "found",
               root |-> [sys_id |-> a.sys_id, name |-> resp.result.name,
                         class |-> resp.result.sys_class_name]]
    ELSE LET resp    == CiQuery(a.ci_name)
             results == IF resp.status = "ok" /\ resp.hasResult THEN resp.result ELSE <<>>
         IN
         IF resp.status = "error" THEN [kind |-> "threw"]
         ELSE IF Len(results) = 0
         THEN [kind |-> "missing", text |-> "CI not found: ", about |-> a.ci_name]
         ELSE [kind |-> "found",
               root |-> [sys_id |-> results[1].sys_id, name |-> results[1].name,
                         class |-> results[1].sys_class_name]]

\* resolveRoot taking the last candidate
resolveRoot_LastCandidate(a) ==
    IF truthy(a.sys_id)
    THEN LET resp == CiGet(a.sys_id) IN
         IF resp.status = "error" THEN [kind |-> "threw"]
         ELSE IF ~resp.hasResult \/ ~truthy(resp.result.name)
         THEN [kind |-> "missing", text |-> "CI not found with sys_id: ", about |-> a.sys_id]
         ELSE [kind |-> "found",
               root |-> [sys_id |-> a.sys_id, name |-> resp.result.name,
                         class |-> resp.result.sys_class_name]]
    ELSE LET resp    == CiQuery(a.ci_name)
             results == IF resp.status = "ok" /\ resp.hasResult THEN resp.result ELSE <<>>
             last    == Len(results)
         IN
         IF resp.status = "error" THEN [kind |-> "threw"]
         ELSE IF Len(results) = 0
         THEN [kind |-> "missing", text |-> "CI not found: ", about |-> a.ci_name]
         ELSE [kind |-> "found",
               root |-> [sys_id |-> results[last].sys_id, name |-> results[last].name,
                         class |-> results[last].sys_class_name]]

\* lines 86-110: the root lookup answers; what root resolution makes of it
resolveRoot(a) ==
    IF truthy(a.sys_id)
    THEN LET resp == CiGet(a.sys_id) IN
         IF resp.status = "error" THEN [kind |-> "threw"]
         ELSE IF ~resp.hasResult \/ ~truthy(resp.result.name)
         THEN [kind |-> "missing", text |-> "CI not found with sys_id: ", about |-> a.sys_id]
         ELSE [kind |-> "found",
               root |-> [sys_id |-> a.sys_id, name |-> resp.result.name,
                         class |-> resp.result.sys_class_name]]
    ELSE LET resp    == CiQuery(a.ci_name)
             results == IF resp.status = "ok" /\ resp.hasResult THEN resp.result ELSE <<>>
         IN
         IF resp.status = "error" THEN [kind |-> "threw"]
         ELSE IF Len(results) = 0
         THEN [kind |-> "missing", text |-> "CI not found: ", about |-> a.ci_name]
         ELSE [kind |-> "found",
               root |-> [sys_id |-> results[1].sys_id, name |-> results[1].name,
                         class |-> results[1].sys_class_name]]

\* lines 86-233 and 240-241: from the answer of the root lookup to the first
\* relationship query
RootResponse(r) ==
    /\ pc[r] = "root"
    /\ LET res == resolveRoot(args[r])
           ctx == ctxOf(r)
       IN  IF res.kind = "threw"
           THEN /\ commit(r, fail(ctx, "formatError", <<>>))
                /\ UNCHANGED root
           ELSE IF res.kind = "missing"
           THEN /\ commit(r, fail(ctx, res.text, res.about))
                /\ UNCHANGED root
           ELSE /\ root' = [root EXCEPT ![r] = res.root]
                /\ commit(r, traverse(
                        [ctx EXCEPT !.visited = {res.root.sys_id},
                                    !.classCache = mapSet(<<>>, res.root.sys_id, res.root.class),
                                    !.allRels = <<>>],
                        [envOf(r) EXCEPT !.root = res.root],
                        res.root.sys_id, 1))
    /\ UNCHANGED <<rows, listing, fieldIn, extracted, faults, config, arrival, args, maxDepth, direction>>

\* the relationship query's failure is not caught and reaches the handler's catch
relFailed_Uncaught(ctx, env) == fail(ctx, "formatError", <<>>)

\* lines 173-175: catch { return; }
relFailed(ctx, env) == loop([ctx EXCEPT !.stack = Tail(@)], env)

\* the rows of the answer taken last first
relAnswered_Reversed(ctx, env) ==
    LET f    == ctx.stack[1]
        resp == RelQuery(f.currentId)
    IN  IF resp.status = "error"
        THEN relFailed(ctx, env)
        ELSE loop([ctx EXCEPT !.stack[1].records =
                        IF resp.hasResult
                        THEN [k \in DOMAIN resp.result |->
                                resp.result[Len(resp.result) + 1 - k]]
                        ELSE <<>>],
                  env)

\* lines 165-177: the relationship query of the innermost traverse call answers
relAnswered(ctx, env) ==
    LET f    == ctx.stack[1]
        resp == RelQuery(f.currentId)
    IN  IF resp.status = "error"
        THEN relFailed(ctx, env)
        ELSE loop([ctx EXCEPT !.stack[1].records =
                        IF resp.hasResult THEN resp.result ELSE <<>>],
                  env)

RelResponse(r) ==
    /\ pc[r] = "rel"
    /\ commit(r, relAnswered(ctxOf(r), envOf(r)))
    /\ UNCHANGED <<rows, listing, fieldIn, extracted, faults, config, arrival, args, maxDepth, direction, root>>

\* lines 119-130: what getClass makes of the answer of its lookup
classOfResponse(resp) ==
    IF resp.status = "error" THEN unknown
    ELSE IF ~resp.hasResult THEN unknown
    ELSE orElse(resp.result.sys_class_name, unknown)

\* getClass caching only the classes it was given
classAnswered_ForgetUnknown(ctx, env) ==
    LET f   == ctx.stack[1]
        v   == rowView(f.records[f.i], f.currentId)
        cls == classOfResponse(CiGet(v.otherId))
    IN  afterClass(IF cls = unknown THEN ctx
                   ELSE [ctx EXCEPT !.classCache = mapSet(@, v.otherId, cls)], env, cls)

\* lines 117-131 and 211: the class lookup of getClass answers
classAnswered(ctx, env) ==
    LET f   == ctx.stack[1]
        v   == rowView(f.records[f.i], f.currentId)
        cls == classOfResponse(CiGet(v.otherId))
    IN  afterClass([ctx EXCEPT !.classCache = mapSet(@, v.otherId, cls)], env, cls)

ClassResponse(r) ==
    /\ pc[r] = "class"
    /\ commit(r, classAnswered(ctxOf(r), envOf(r)))
    /\ UNCHANGED <<rows, listing, fieldIn, extracted, faults, config, arrival, args, maxDepth, direction, root>>

Next ==
    \E r \in Reqs :
        \/ Invoke(r)
        \/ RootResponse(r)
        \/ RelResponse(r)
        \/ ClassResponse(r)

(***************************************************************************)
(* Initial states: the store, the configuration and the requests           *)
(***************************************************************************)
MaxRows == 3
MinRows == 2
MaxFaults == 2

\* every relationship row over NodeSeq and TypeSeq, in the store's listing order
RowAlphabet ==
    LET n == Len(NodeSeq)
        t == Len(TypeSeq)
    IN  [k \in 1..(n * n * t) |->
            Row(NodeSeq[((k - 1) \div (n * t)) + 1],
                NodeSeq[(((k - 1) \div t) % n) + 1],
                TypeSeq[((k - 1) % t) + 1])]

RECURSIVE Increasing(_, _)
Increasing(n, k) ==
    IF k = 0 THEN {<<>>}
    ELSE LET P == Increasing(n, k - 1)
         IN  P \cup {Append(s, j) : <<s, j>> \in
                        {<<s, j>> \in P \X (1..n) :
                            Len(s) = k - 1 /\ (s = <<>> \/ s[Len(s)] < j)}}

Reverse(s) == [k \in DOMAIN s |-> s[Len(s) + 1 - k]]

\* the tables of at most k distinct rows, listed in either order
Stores(k) ==
    LET asc == {[j \in DOMAIN s |-> RowAlphabet[s[j]]] :
                    s \in Increasing(Len(RowAlphabet), k)}
    IN  asc \cup {Reverse(s) : s \in asc}

Cycle3   == <<Row(A, B, RunsOn), Row(B, C, RunsOn), Row(C, A, RunsOn)>>
Chain    == <<Row(A, B, RunsOn), Row(B, C, Uses)>>
Parallel == <<Row(A, B, RunsOn), Row(A, B, Uses), Row(A, A, Uses), Row(C, B, RunsOn)>>
Diamond  == <<Row(A, B, RunsOn), Row(A, C, Uses), Row(B, C, RunsOn), Row(C, B, Uses)>>
Samples  == {Cycle3, Chain, Parallel, Diamond}

FaultAlphabet ==
    [call : {"rel", "ci"}, key : NodeIds, how : {"throws", "empty"}]

Directions == {"upstream", "downstream", "both"}

DefaultArgs ==
    [ci_name |-> <<>>, sys_id |-> A, depth |-> <<>>, direction |-> "both",
     type |-> <<>>, class |-> <<>>, impact |-> FALSE]

NoField == [shape |-> "null"]
NotExtracted == [done |-> FALSE]

NoResult == [isError |-> FALSE, text |-> "pending", about |-> <<>>]

\* the locals of the calls of handler before any of them has run
Locals(active) ==
    /\ pc = [r \in Reqs |-> IF r \in active THEN "idle" ELSE "off"]
    /\ maxDepth = [r \in Reqs |-> 0]
    /\ direction = [r \in Reqs |-> "both"]
    /\ root = [r \in Reqs |-> [sys_id |-> <<>>, name |-> <<>>, class |-> <<>>]]
    /\ visited = [r \in Reqs |-> {}]
    /\ classCache = [r \in Reqs |-> <<>>]
    /\ allRels = [r \in Reqs |-> <<>>]
    /\ origin = [r \in Reqs |-> <<>>]
    /\ stack = [r \in Reqs |-> <<>>]
    /\ calls = [r \in Reqs |-> <<>>]
    /\ result = [r \in Reqs |-> NoResult]

\* the server before any request: the requests of active are on their way
Start(active) ==
    /\ Locals(active)
    /\ listing = Listing
    /\ fieldIn = NoField
    /\ extracted = NotExtracted

One(a) == [r \in Reqs |-> IF r = "r1" THEN a ELSE DefaultArgs]

TypeFilters  == {<<>>, <<"r","u","n">>, <<"U","S","E">>}
ClassFilters == {<<>>, <<"s","e","r","v","e","r">>, <<"S","W">>}

\* any small graph, walked from A in every direction to every depth
InitGraphs ==
    /\ rows \in Stores(MaxRows)
    /\ faults = {}
    /\ config = [relDepth |-> 3]
    /\ arrival = "serial"
    /\ \E d \in {<<>>, <<1>>, <<2>>}, dir \in Directions :
          args = One([DefaultArgs EXCEPT !.depth = d, !.direction = dir])
    /\ Start({"r1"})

\* any smaller graph, walked from A under every combination of filters
InitFilters ==
    /\ rows \in Stores(MinRows)
    /\ faults = {}
    /\ config = [relDepth |-> 3]
    /\ arrival = "serial"
    /\ \E d \in {<<1>>, <<2>>}, dir \in Directions,
          ty \in TypeFilters, cls \in ClassFilters :
          args = One([DefaultArgs EXCEPT !.depth = d, !.direction = dir,
                                         !.type = ty, !.class = cls])
    /\ Start({"r1"})

\* the sample graphs under every pattern of at most MaxFaults failing calls
InitFaults ==
    /\ rows \in Samples
    /\ faults \in {F \in SUBSET FaultAlphabet : Cardinality(F) <= MaxFaults}
    /\ config = [relDepth |-> 3]
    /\ arrival = "serial"
    /\ \E cls \in {<<>>, <<"s","e","r","v">>}, dir \in Directions :
          args = One([DefaultArgs EXCEPT !.class = cls, !.direction = dir])
    /\ Start({"r1"})

\* the sample graphs, the root given in every way, found or not
InitRoots ==
    /\ rows \in Samples
    /\ faults \in {{}} \cup
          {{[call |-> c, key |-> k, how |-> h]} :
              c \in {"ci", "name"}, k \in {A, <<"w","e","b">>}, h \in {"throws", "empty"}}
    /\ config = [relDepth |-> 3]
    /\ arrival = "serial"
    /\ \E nm \in {<<>>, <<"w","e","b">>, <<"d","b">>, <<"n","o">>},
          id \in {<<>>, A, B, N, Z} :
          args = One([DefaultArgs EXCEPT !.ci_name = nm, !.sys_id = id])
    /\ Start({"r1"})

\* the sample graphs, every requested and configured depth, impact mode
InitDepths ==
    /\ rows \in Samples
    /\ faults = {}
    /\ config \in {[relDepth |-> 3], [relDepth |-> 0], [relDepth |-> 7]}
    /\ arrival = "serial"
    /\ \E d \in {<<>>, <<-1>>, <<0>>, <<1>>, <<2>>, <<4>>, <<5>>, <<6>>, <<9>>},
          dir \in Directions, imp \in BOOLEAN :
          args = One([DefaultArgs EXCEPT !.depth = d, !.direction = dir, !.impact = imp])
    /\ Start({"r1"})

Init == InitGraphs \/ InitFilters \/ InitFaults \/ InitRoots \/ InitDepths

Spec == Init /\ [][Next]_vars

Two(a, b) == [r \in Reqs |-> IF r = "r1" THEN a ELSE IF r = "r2" THEN b ELSE DefaultArgs]
Three(a, b, c) == [r \in Reqs |-> IF r = "r1" THEN a ELSE IF r = "r2" THEN b ELSE c]

DepthArgs == {<<>>, <<-1>>, <<0>>, <<1>>, <<2>>, <<5>>, <<9>>}

\* one request with a class filter and the same request without it
InitClassPair ==
    /\ \/ rows \in Stores(MinRows) /\ faults = {}
       \/ rows \in Samples /\ faults \in {F \in SUBSET FaultAlphabet : Cardinality(F) <= 1}
    /\ config = [relDepth |-> 3]
    /\ arrival = "serial"
    /\ \E d \in {<<1>>, <<2>>}, dir \in Directions, cls \in ClassFilters \ {<<>>} :
          LET a == [DefaultArgs EXCEPT !.depth = d, !.direction = dir]
          IN  args = Two([a EXCEPT !.class = cls], a)
    /\ Start({"r1", "r2"})

\* two requests that differ in the requested depth only
InitDepthPair ==
    /\ rows \in Samples
    /\ faults = {}
    /\ config \in {[relDepth |-> 3], [relDepth |-> 0], [relDepth |-> 7]}
    /\ arrival = "serial"
    /\ \E d1 \in DepthArgs, d2 \in DepthArgs :
          args = Two([DefaultArgs EXCEPT !.depth = d1], [DefaultArgs EXCEPT !.depth = d2])
    /\ Start({"r1", "r2"})

\* the same request in each of the three directions
InitDirections ==
    /\ rows \in Stores(MinRows) \cup Samples
    /\ faults = {}
    /\ config = [relDepth |-> 3]
    /\ arrival = "serial"
    /\ \E d \in {<<>>, <<1>>, <<2>>}, ty \in {<<>>, <<"r","u","n">>} :
          LET a == [DefaultArgs EXCEPT !.depth = d, !.type = ty]
          IN  args = Three([a EXCEPT !.direction = "upstream"],
                           [a EXCEPT !.direction = "downstream"],
                           [a EXCEPT !.direction = "both"])
    /\ Start({"r1", "r2", "r3"})

\* two requests on the sample graphs whose remote calls interleave
InitOverlap ==
    /\ rows \in Samples
    /\ faults = {}
    /\ config = [relDepth |-> 3]
    /\ arrival = "overlap"
    /\ \E d \in {<<0>>, <<1>>, <<2>>}, cls \in ClassFilters, id \in {A, B}, id2 \in {A, C} :
          LET a == [DefaultArgs EXCEPT !.sys_id = id, !.class = cls]
          IN  args = Two([a EXCEPT !.depth = d],
                         [a EXCEPT !.class = <<>>, !.sys_id = IF id2 = A THEN id ELSE id2])
    /\ Start({"r1", "r2"})

\* n rows incident to A, rows between A and B and then one row from A to C
Crowd(n) ==
    [k \in 1..n |->
        IF k = n THEN Row(A, C, RunsOn)
        ELSE IF k % 2 = 1 THEN Row(A, B, RunsOn) ELSE Row(B, A, Uses)]

\* a node with as many rows as one query returns, one fewer and one more
InitCrowd ==
    /\ rows \in {Crowd(RowLimit - 1), Crowd(RowLimit), Crowd(RowLimit + 1)}
    /\ faults = {}
    /\ config = [relDepth |-> 3]
    /\ arrival = "serial"
    /\ \E d \in {<<1>>, <<2>>}, dir \in Directions, ty \in {<<>>, <<"r","u","n">>},
          id \in {A, B} :
          args = One([DefaultArgs EXCEPT !.sys_id = id, !.depth = d,
                                         !.direction = dir, !.type = ty])
    /\ Start({"r1"})

\* rows whose endpoints come as bare ids, as links, or cannot be decoded
Bare   == <<[Row(A, B, RunsOn) EXCEPT !.parent = RefString(A), !.child = RefString(B)],
            [Row(C, B, Uses) EXCEPT !.parent = RefString(C), !.child = RefLink(B)]>>
Linked == <<[Row(A, B, RunsOn) EXCEPT !.parent = RefLink(A)],
            [Row(B, C, Uses) EXCEPT !.child = RefLink(C), !.type = [shape |-> "null"]],
            [Row(C, A, Uses) EXCEPT !.parent = RefString(C)]>>
Blank  == <<[Row(A, B, RunsOn) EXCEPT !.parent = RefBlank(A)],
            [Row(A, B, Uses) EXCEPT !.parent = RefLink(A)],
            [Row(C, B, RunsOn) EXCEPT !.child = RefBlank(B)],
            [Row(C, B, Uses) EXCEPT !.parent = RefString(C), !.child = RefString(B)]>>

\* a bare id of 32 lower-case hexadecimal characters, naming no record
Unnamed == [k \in 1..SysIdLength |-> "a"]

\* rows whose other endpoint has no display string: a structure with an empty
\* display value, and a bare 32-character id
Nameless == <<Row(A, N, RunsOn),
              [Row(A, B, Uses) EXCEPT !.child = RefString(Unnamed)],
              [Row(N, B, Uses) EXCEPT !.parent = RefString(N)]>>

InitShapes ==
    /\ rows \in {Bare, Linked, Blank, Nameless} \cup Samples
    /\ faults = {}
    /\ config = [relDepth |-> 3]
    /\ arrival = "serial"
    /\ \E d \in {<<1>>, <<2>>, <<3>>}, dir \in Directions, ty \in {<<>>, <<"u","s","e">>},
          id \in {A, B}, imp \in BOOLEAN :
          args = One([DefaultArgs EXCEPT !.sys_id = id, !.depth = d, !.direction = dir,
                                         !.type = ty, !.impact = imp])
    /\ Start({"r1"})

\* rows at records that share their name with A
Twins == <<Row(A, B, RunsOn), Row(D, C, Uses), Row(<<"H">>, B, Uses),
           Row(C, <<"H">>, RunsOn)>>

Rotate(q, n) == [k \in DOMAIN q |-> q[((k + n - 1) % Len(q)) + 1]]

\* the root given by name, the store listing its records in different orders
InitNames ==
    /\ rows = Twins
    /\ listing \in {Rotate(Listing, n) : n \in 0..(Len(Listing) - 1)}
                 \cup {Reverse(Rotate(Listing, n)) : n \in 0..(Len(Listing) - 1)}
    /\ faults = {}
    /\ config = [relDepth |-> 3]
    /\ arrival = "serial"
    /\ \E d \in {<<1>>, <<2>>}, dir \in Directions,
          nm \in {<<"w","e","b">>, <<"d","b">>, <<"W","e","b">>} :
          args = One([DefaultArgs EXCEPT !.sys_id = <<>>, !.ci_name = nm,
                                         !.depth = d, !.direction = dir])
    /\ Locals({"r1"})
    /\ fieldIn = NoField
    /\ extracted = NotExtracted

InitStore == InitCrowd \/ InitShapes \/ InitNames

StoreSpec == InitStore /\ [][Next]_vars

\* a node three rows away from A along the first rows of the store and one
\* row away along a later row, with two more rows behind it
Shortcut == <<Row(A, B, RunsOn), Row(B, C, RunsOn), Row(C, D, RunsOn),
              Row(A, D, Uses), Row(D, <<"E">>, RunsOn), Row(<<"E">>, <<"F">>, RunsOn)>>

\* the same request at depth d and at depth d + 1
InitShortcut ==
    /\ rows = Shortcut
    /\ faults = {}
    /\ config = [relDepth |-> 3]
    /\ arrival = "serial"
    /\ \E d \in MinDepth..(MaxDepth - 1), dir \in Directions :
          LET a == [DefaultArgs EXCEPT !.direction = dir]
          IN  args = Two([a EXCEPT !.depth = <<d>>], [a EXCEPT !.depth = <<d + 1>>])
    /\ Start({"r1", "r2"})

InitRel == InitClassPair \/ InitDepthPair \/ InitDirections \/ InitOverlap
              \/ InitShortcut

RelSpec == InitRel /\ [][Next]_vars

(***************************************************************************)
(* extractValue and extractDisplay on their own                            *)
(***************************************************************************)
Repeat(c, n) == [k \in 1..n |-> c]

Id1 == <<"i","d","1">>
Id2 == <<"i","d","2">>
Id3 == <<"i","d","3">>
Web == <<"w","e","b">>
LinkToId2 == <<"h","t","t","p","s",":","/","/","x","/","y","/">> \o Id2

LowerHex32 == Repeat("a", SysIdLength)
MixedHex32 == Repeat("0", SysIdLength - 3) \o <<"9","f","c">>
UpperHex32 == Repeat("A", SysIdLength)
NoHex32    == Repeat("g", SysIdLength)
Hex31      == Repeat("b", SysIdLength - 1)
Hex33      == Repeat("c", SysIdLength + 1)

Texts == {<<>>, Id3, Web, LowerHex32, MixedHex32, UpperHex32, NoHex32, Hex31, Hex33}

\* the fields of a record as JSON can carry them
Fields ==
    {[shape |-> "null"], [shape |-> "other"]}
    \cup {[shape |-> "string", str |-> t] : t \in Texts}
    \cup [shape : {"object"},
          value : {<<>>, Id1, LowerHex32, UpperHex32},
          display_value : {<<>>, Web, LowerHex32, Hex31},
          link : {<<>>, LinkToId2, <<"x","/","y","/">>, Id2}]

InitExtract ==
    /\ fieldIn \in Fields
    /\ extracted = NotExtracted
    /\ rows = <<>>
    /\ listing = Listing
    /\ faults = {}
    /\ config = [relDepth |-> 3]
    /\ arrival = "serial"
    /\ args = One(DefaultArgs)
    /\ Locals({})

\* extractValue(field) and extractDisplay(field) are called
Extract ==
    /\ ~extracted.done
    /\ extracted' = [done |-> TRUE,
                     value |-> extractValue(fieldIn),
                     display |-> extractDisplay(fieldIn)]
    /\ UNCHANGED <<rows, listing, fieldIn, faults, config, arrival, args, pc, maxDepth,
                   direction, root, visited, classCache, allRels, origin, stack,
                   calls, result>>

ExtractNext == Extract

ExtractSpec == InitExtract /\ [][ExtractNext]_vars

(***************************************************************************)
(* The write tools: sn_delete (src/src/tools/delete.ts), sn_batch          *)
(* (src/src/tools/create.ts) and sn_nl (src/unnamed/part_002), called      *)
(* through executeTool (src/src/tools/index.ts).  The store answers a      *)
(* table query with records of listing: all of them for an empty query,    *)
(* one for sys_id=<id>.  The encoded query sn_nl builds and the payloads    *)
(* are not modelled: for sn_nl the table stands for the records its query  *)
(* selects.                                                                *)
(***************************************************************************)
Digits == <<"0","1","2","3","4","5","6","7","8","9">>
DigitSet == {Digits[k] : k \in DOMAIN Digits}
LowerSet == {LowerCase[k] : k \in DOMAIN LowerCase}

\* \w of a regular expression
isWordChar(c) ==
    c \in LowerSet \cup {UpperCase[k] : k \in DOMAIN UpperCase} \cup DigitSet \cup {"_"}

\* t occurs in s at offset k
matchesAt(s, t, k) == k + Len(t) <= Len(s) /\ SubSeq(s, k + 1, k + Len(t)) = t

\* \b between s[k] and s[k + 1]
boundary(s, k) ==
    (k >= 1 /\ isWordChar(s[k])) # (k < Len(s) /\ isWordChar(s[k + 1]))

\* /t1|t2|.../.test(s)
includesAny(s, T) == \E t \in T : includes(s, t)

\* /^(t1|t2|...)\b/.test(s)
startsWithWord(s, T) == \E t \in T : matchesAt(s, t, 0) /\ boundary(s, Len(t))

\* /\bt\b/.test(s)
hasWord(s, t) ==
    \E k \in 0..(Len(s) - Len(t)) :
        matchesAt(s, t, k) /\ boundary(s, k) /\ boundary(s, k + Len(t))

\* how many characters of s from offset k on are in set S (a greedy S+ or S*)
runLength(s, k, S) ==
    CHOOSE n \in 0..(Len(s) - k) :
        /\ \A j \in 1..n : s[k + j] \in S
        /\ k + n = Len(s) \/ s[k + n + 1] \notin S

RECURSIVE parseInt(_)
parseInt(ds) ==
    IF ds = <<>> THEN 0
    ELSE 10 * parseInt(SubSeq(ds, 1, Len(ds) - 1))
         + ((CHOOSE k \in DOMAIN Digits : Digits[k] = ds[Len(ds)]) - 1)

\* lines 44-85: the keys of TABLE_ALIASES
TABLE_ALIASES ==
    {<<"i","n","c","i","d","e","n","t">>, <<"i","n","c","i","d","e","n","t","s">>,
     <<"i","n","c">>, <<"t","i","c","k","e","t">>, <<"t","i","c","k","e","t","s">>,
     <<"c","h","a","n","g","e">>, <<"c","h","a","n","g","e","s">>,
     <<"c","h","a","n","g","e"," ","r","e","q","u","e","s","t">>,
     <<"c","h","a","n","g","e"," ","r","e","q","u","e","s","t","s">>,
     <<"p","r","o","b","l","e","m">>, <<"p","r","o","b","l","e","m","s">>,
     <<"t","a","s","k">>, <<"t","a","s","k","s">>, <<"u","s","e","r">>,
     <<"u","s","e","r","s">>, <<"p","e","o","p","l","e">>, <<"p","e","r","s","o","n">>,
     <<"g","r","o","u","p">>, <<"g","r","o","u","p","s">>, <<"t","e","a","m">>,
     <<"t","e","a","m","s">>, <<"s","e","r","v","e","r">>,
     <<"s","e","r","v","e","r","s">>, <<"c","i">>, <<"c","i","s">>, <<"c","m","d","b">>,
     <<"c","o","n","f","i","g","u","r","a","t","i","o","n"," ","i","t","e","m">>,
     <<"c","o","n","f","i","g","u","r","a","t","i","o","n"," ","i","t","e","m","s">>,
     <<"c","o","m","p","u","t","e","r">>, <<"c","o","m","p","u","t","e","r","s">>,
     <<"l","a","p","t","o","p">>, <<"l","a","p","t","o","p","s">>,
     <<"d","a","t","a","b","a","s","e">>, <<"d","a","t","a","b","a","s","e","s">>,
     <<"d","b">>, <<"a","p","p","l","i","c","a","t","i","o","n">>,
     <<"a","p","p","l","i","c","a","t","i","o","n","s">>, <<"a","p","p">>,
     <<"a","p","p","s">>, <<"s","e","r","v","i","c","e">>,
     <<"s","e","r","v","i","c","e","s">>,
     <<"b","u","s","i","n","e","s","s"," ","s","e","r","v","i","c","e">>,
     <<"b","u","s","i","n","e","s","s"," ","s","e","r","v","i","c","e","s">>,
     <<"n","e","t","w","o","r","k"," ","g","e","a","r">>, <<"r","o","u","t","e","r">>,
     <<"r","o","u","t","e","r","s">>, <<"s","w","i","t","c","h">>,
     <<"s","w","i","t","c","h","e","s">>, <<"k","n","o","w","l","e","d","g","e">>,
     <<"k","n","o","w","l","e","d","g","e"," ","a","r","t","i","c","l","e">>,
     <<"k","n","o","w","l","e","d","g","e"," ","a","r","t","i","c","l","e","s">>,
     <<"a","r","t","i","c","l","e">>, <<"a","r","t","i","c","l","e","s">>, <<"k","b">>,
     <<"c","a","t","a","l","o","g"," ","i","t","e","m">>,
     <<"c","a","t","a","l","o","g"," ","i","t","e","m","s">>,
     <<"r","e","q","u","e","s","t">>, <<"r","e","q","u","e","s","t","s">>,
     <<"r","e","q","u","e","s","t","e","d"," ","i","t","e","m">>,
     <<"r","e","q","u","e","s","t","e","d"," ","i","t","e","m","s">>,
     <<"r","i","t","m">>, <<"r","i","t","m","s">>,
     <<"u","p","d","a","t","e"," ","s","e","t">>,
     <<"u","p","d","a","t","e"," ","s","e","t","s">>, <<"f","l","o","w">>,
     <<"f","l","o","w","s">>, <<"n","o","t","i","f","i","c","a","t","i","o","n">>,
     <<"n","o","t","i","f","i","c","a","t","i","o","n","s">>,
     <<"b","u","s","i","n","e","s","s"," ","r","u","l","e">>,
     <<"b","u","s","i","n","e","s","s"," ","r","u","l","e","s">>,
     <<"a","l","e","r","t">>, <<"a","l","e","r","t","s">>, <<"s","l","a">>,
     <<"s","l","a","s">>, <<"e","m","a","i","l">>, <<"e","m","a","i","l","s">>}

\* line 131
SchemaWords ==
    {<<"s","c","h","e","m","a">>, <<"f","i","e","l","d","s">>,
     <<"c","o","l","u","m","n","s">>, <<"s","t","r","u","c","t","u","r","e">>,
     <<"w","h","a","t"," ","f","i","e","l","d","s">>,
     <<"d","e","s","c","r","i","b","e"," ","t","a","b","l","e">>}

\* line 133
AggregateWords ==
    {<<"h","o","w"," ","m","a","n","y">>, <<"c","o","u","n","t"," ","o","f">>,
     <<"t","o","t","a","l"," ","n","u","m","b","e","r">>,
     <<"n","u","m","b","e","r"," ","o","f">>, <<"s","u","m"," ","o","f">>,
     <<"a","v","e","r","a","g","e">>, <<"a","v","g"," ","o","f">>,
     <<"m","i","n","i","m","u","m">>, <<"m","a","x","i","m","u","m">>}

\* line 135
CreateVerbs ==
    {<<"c","r","e","a","t","e">>, <<"n","e","w">>, <<"a","d","d">>, <<"o","p","e","n">>,
     <<"l","o","g">>, <<"r","a","i","s","e">>, <<"s","u","b","m","i","t">>,
     <<"r","e","g","i","s","t","e","r">>}

\* line 137
UpdateVerbs ==
    {<<"u","p","d","a","t","e">>, <<"c","h","a","n","g","e">>, <<"s","e","t">>,
     <<"m","o","d","i","f","y">>, <<"e","d","i","t">>, <<"p","a","t","c","h">>,
     <<"r","e","a","s","s","i","g","n">>, <<"e","s","c","a","l","a","t","e">>}

\* line 139
BatchWords ==
    {<<"c","l","o","s","e"," ","a","l","l">>,
     <<"u","p","d","a","t","e"," ","a","l","l">>,
     <<"d","e","l","e","t","e"," ","a","l","l">>, <<"b","u","l","k">>,
     <<"m","a","s","s"," ","u","p","d","a","t","e">>,
     <<"m","a","s","s"," ","c","l","o","s","e">>, <<"b","a","t","c","h">>}

\* line 141
DeleteVerbs ==
    {<<"d","e","l","e","t","e">>, <<"r","e","m","o","v","e">>,
     <<"d","e","s","t","r","o","y">>, <<"p","u","r","g","e">>}

\* line 172
RecordPrefixes ==
    {<<"i","n","c">>, <<"c","h","g">>, <<"p","r","b">>, <<"r","i","t","m">>,
     <<"r","e","q">>, <<"t","a","s","k">>, <<"k","b">>}

\* line 201
LimitWords ==
    {<<"t","o","p">>, <<"f","i","r","s","t">>, <<"l","i","m","i","t">>,
     <<"s","h","o","w">>}

\* line 209
DefaultTableWords ==
    {<<"t","i","c","k","e","t">>, <<"i","s","s","u","e">>, <<"o","u","t","a","g","e">>,
     <<"d","o","w","n">>, <<"b","r","o","k","e">>, <<"f","i","x">>,
     <<"u","r","g","e","n","t">>, <<"c","r","i","t","i","c","a","l">>}


\* part_002 lines 111-128: let table is set from an alias, a raw table
\* name, a record number or a default word (true), or stays "" (false)
aliasFound(lower) == includesAny(lower, TABLE_ALIASES)

\* lower.match(/[a-z][a-z_]+_[a-z_]+/)
rawMatch(lower) ==
    \E i \in 1..Len(lower), j \in 1..Len(lower) :
        /\ lower[i] \in LowerSet
        /\ j >= i + 2 /\ j + 1 <= Len(lower)
        /\ lower[j] = "_"
        /\ \A k \in (i + 1)..(j + 1) : lower[k] \in LowerSet \cup {"_"}

MinRefDigits == 7

\* lower.match(/(inc|chg|prb|ritm|req|task|kb)\d{7,10}/): the offsets it can match at
refOffsets(lower) ==
    {k \in 0..Len(lower) :
        \E p \in RecordPrefixes :
            /\ matchesAt(lower, p, k)
            /\ runLength(lower, k + Len(p), DigitSet) >= MinRefDigits}

\* lines 172-184: prefixMap[refNum.slice(0, 3)] is a table
refTable(lower) ==
    /\ refOffsets(lower) # {}
    /\ LET k == CHOOSE k \in refOffsets(lower) : \A m \in refOffsets(lower) : k <= m
       IN  matchesAt(lower, <<"k","b">>, k) => lower[k + 3] = "0"

\* lines 208-223: false when the handler returns "Could not determine target table"
tableFound(lower) ==
    \/ aliasFound(lower)
    \/ rawMatch(lower)
    \/ refTable(lower)
    \/ includesAny(lower, DefaultTableWords)

\* lines 129-145
detectIntent(lower) ==
    IF includesAny(lower, SchemaWords) THEN "SCHEMA"
    ELSE IF includesAny(lower, AggregateWords) THEN "AGGREGATE"
    ELSE IF startsWithWord(lower, CreateVerbs) THEN "CREATE"
    ELSE IF startsWithWord(lower, UpdateVerbs) THEN "UPDATE"
    ELSE IF includesAny(lower, BatchWords) THEN "BATCH"
    ELSE IF startsWithWord(lower, DeleteVerbs) THEN "DELETE"
    ELSE "QUERY"

NlLimit == 20
NlAllLimit == 100

\* lines 199-203: let limit
limitOf(lower) ==
    LET at == {k \in 0..Len(lower) :
                 \E w \in LimitWords :
                    /\ matchesAt(lower, w, k)
                    /\ LET e  == k + Len(w)
                           sp == runLength(lower, e, {" "})
                       IN  sp >= 1 /\ runLength(lower, e + sp, DigitSet) >= 1}
    IN  IF at # {}
        THEN LET k  == CHOOSE k \in at : \A m \in at : k <= m
                 w  == CHOOSE w \in LimitWords : matchesAt(lower, w, k)
                 e  == k + Len(w)
                 sp == runLength(lower, e, {" "})
             IN  parseInt(SubSeq(lower, e + sp + 1,
                                 e + sp + runLength(lower, e + sp, DigitSet)))
        ELSE IF hasWord(lower, <<"a","l","l">>) THEN NlAllLimit
        ELSE NlLimit

\* line 346
batchAction(lower) ==
    IF \/ hasWord(lower, <<"d","e","l","e","t","e">>)
       \/ hasWord(lower, <<"r","e","m","o","v","e">>)
    THEN "delete"
    ELSE "update"

\* lines 347-353: batchFields is not undefined
batchFields(lower) ==
    batchAction(lower) = "update"
    /\ (\/ hasWord(lower, <<"c","l","o","s","e">>)
        \/ hasWord(lower, <<"r","e","s","o","l","v","e">>))

SysIdEq == <<"s","y","s","_","i","d","=">>

\* the encoded query selects the record id: client.ts line 133 leaves an
\* empty sysparm_query out of the URL, and the store then filters nothing;
\* sys_id=<id> selects that record
selects(query, id) == query = <<>> \/ query = SysIdEq \o id

\* the store answers GET /api/now/table/<table> with sysparm_query and
\* sysparm_limit
TableGet(query, limit) ==
    IF Fails("GET", <<>>) THEN [status |-> "error"]
    ELSE IF NoBody("GET", <<>>) THEN [status |-> "ok", hasResult |-> FALSE]
    ELSE LET sel == SelectSeq(listing, LAMBDA id : selects(query, id))
         IN  [status |-> "ok", hasResult |-> TRUE,
              result |-> SubSeq(sel, 1, Min(limit, Len(sel)))]

Listed(id) == \E k \in DOMAIN listing : listing[k] = id

Accepted(call, key) == [call |-> call, key |-> key, how |-> "accepted"] \in faults

\* client.ts lines 48-68: delete throws unless the response is ok or 204,
\* and returns the status otherwise
RecordDelete(id) ==
    IF Fails("DELETE", id) \/ ~Listed(id) THEN [status |-> "error"]
    ELSE IF Accepted("DELETE", id) THEN [status |-> "ok", code |-> 202]
    ELSE [status |-> "ok", code |-> 204]

\* the table after the store has answered a DELETE of id
Deleted(id) ==
    IF RecordDelete(id).status = "ok" /\ RecordDelete(id).code = 204
    THEN SelectSeq(listing, LAMBDA x : x # id)
    ELSE listing

RecordPatch(id) ==
    IF Fails("PATCH", id) \/ ~Listed(id) THEN [status |-> "error"] ELSE [status |-> "ok"]

RecordPost ==
    IF Fails("POST", <<>>) THEN [status |-> "error"] ELSE [status |-> "ok"]

\* resp.result || []
resultsOf(resp) == IF resp.hasResult THEN resp.result ELSE <<>>

\* the part of the handler's state one call of a write tool owns
hOf(r) == [pc |-> pc[r], calls |-> calls[r], stack |-> stack[r], result |-> result[r]]

put(r, h) ==
    /\ pc' = [pc EXCEPT ![r] = h.pc]
    /\ calls' = [calls EXCEPT ![r] = h.calls]
    /\ stack' = [stack EXCEPT ![r] = h.stack]
    /\ result' = [result EXCEPT ![r] = h.result]

\* await client.<method>(...): the request is issued and the handler waits at pc
request(h, method, key, at) ==
    [h EXCEPT !.calls = Append(@, [call |-> method, key |-> key]), !.pc = at]

returns(h, res) == [h EXCEPT !.pc = "done", !.result = res, !.stack = <<>>]

\* utils.ts ok(data)
ok(data) == [isError |-> FALSE, text |-> "ok", about |-> <<>>, data |-> data]

\* the for loop over the matched records: its records, position and counters
loopOver(records) == [records |-> records, i |-> 1, processed |-> 0, failed |-> 0]

\* one iteration of the loop ends: processed++ or failed++
counted(h, good) ==
    [h EXCEPT !.stack[1].i = @ + 1,
              !.stack[1].processed = IF good THEN @ + 1 ELSE @,
              !.stack[1].failed = IF good THEN @ ELSE @ + 1]

\* index.ts line 90: tool.schema.safeParse(rawArgs).success; an argument
\* the caller left out is <<>>, one given is <<value>>; delete.ts declares
\* confirm required and create.ts declares query required
parses(raw) ==
    /\ raw.tool = "sn_delete" => raw.confirm # <<>>
    /\ raw.tool = "sn_batch" => raw.query # <<>>

\* zod z.boolean().optional().default(false)
flag(raw) == raw # <<>> /\ raw[1]

BatchLimit == 200
SafetyCap == 10000

\* parsed.data
parse(raw) ==
    CASE raw.tool = "sn_delete" -> [raw EXCEPT !.confirm = flag(@)]
      [] raw.tool = "sn_batch" ->
            \* z.object strips the keys the schema does not declare: force
            [tool |-> raw.tool, query |-> raw.query[1], action |-> raw.action,
             fields |-> raw.fields, confirm |-> flag(raw.confirm),
             limit |-> IF raw.limit = <<>> THEN BatchLimit ELSE raw.limit[1]]
      [] raw.tool = "sn_nl" ->
            [raw EXCEPT !.execute = flag(@), !.confirm = flag(@), !.force = flag(@)]

(***************************************************************************)
(* delete.ts                                                               *)
(***************************************************************************)
\* lines 41-50
deleteHandler(a, h) ==
    IF ~a.confirm
    THEN returns(h, err("Must set confirm to true to delete records", <<>>))
    ELSE request(h, "DELETE", a.sys_id, "deleting")

\* lines 52-63
deleteAnswered(a, h, resp) ==
    IF resp.status = "error" THEN returns(h, err("formatError", a.sys_id))
    ELSE IF resp.code = 204 \/ resp.code = 200
    THEN returns(h, ok([status |-> "deleted", sys_id |-> a.sys_id]))
    ELSE returns(h, err("Delete failed with HTTP", a.sys_id))

(***************************************************************************)
(* create.ts, sn_batch                                                     *)
(***************************************************************************)
\* lines 110-121
batchHandler(a, h) ==
    IF a.action = "update" /\ ~a.fields
    THEN returns(h, err("--fields is required for update action", <<>>))
    ELSE request(h, "GET", <<>>, "matching")

\* every call executes
dryRun_Never(a) == FALSE

\* line 127: if (!args.confirm)
dryRun(a) == ~a.confirm

\* lines 151-181: the loop at its next record, or the summary after the last
batchLoop(a, h) ==
    LET f == h.stack[1]
    IN  IF f.i > Len(f.records)
        THEN returns(h, ok([matched |-> Len(f.records), processed |-> f.processed,
                            failed |-> f.failed]))
        ELSE request(h, IF a.action = "update" THEN "PATCH" ELSE "DELETE",
                     f.records[f.i], "writing")

\* lines 123-149: the matching records have arrived
batchMatched(a, h, resp) ==
    IF resp.status = "error" THEN returns(h, err("formatError", <<>>))
    ELSE LET results == resultsOf(resp)
         IN  IF dryRun(a)
             THEN returns(h, ok([matched |-> Len(results), dry_run |-> TRUE]))
             ELSE IF Len(results) = 0
             THEN returns(h, ok([matched |-> 0, processed |-> 0, failed |-> 0]))
             ELSE batchLoop(a, [h EXCEPT !.stack = <<loopOver(results)>>])

\* lines 153-172: the PATCH or DELETE of one record is answered
batchWritten(a, h, resp) ==
    batchLoop(a, counted(h,
        /\ resp.status = "ok"
        /\ a.action = "update" \/ resp.code = 204 \/ resp.code = 200))

(***************************************************************************)
(* sn_nl                                                                   *)
(***************************************************************************)
ReadIntents == {"SCHEMA", "AGGREGATE", "QUERY"}

\* lines 108-411 up to the first await
nlHandler(a, h) ==
    LET lower  == toLowerCase(a.text)
        intent == detectIntent(lower)
        unexecuted == returns(h, ok([intent |-> intent, executed |-> FALSE]))
    IN  IF ~tableFound(lower)
        THEN returns(h, ok([error |-> "Could not determine target table from input."]))
        ELSE CASE intent \in ReadIntents -> request(h, "GET", <<>>, "nl_read")
               [] intent = "CREATE" ->
                    IF a.execute THEN request(h, "POST", <<>>, "nl_post") ELSE unexecuted
               [] intent = "UPDATE" -> unexecuted
               [] intent = "BATCH" ->
                    IF a.execute /\ a.confirm
                    THEN IF batchAction(lower) = "delete" /\ ~a.force
                         THEN unexecuted
                         ELSE request(h, "GET", <<>>, "nl_match")
                    ELSE request(h, "GET", <<>>, "nl_dry")
               [] intent = "DELETE" -> unexecuted

\* lines 241-250, 281-282, 295-300: the answer of a read
nlRead(a, h, resp) ==
    IF resp.status = "error" THEN returns(h, err("formatError", <<>>))
    ELSE returns(h, ok([intent |-> detectIntent(toLowerCase(a.text))]))

\* lines 321-322
nlCreated(a, h, resp) ==
    IF resp.status = "error" THEN returns(h, err("formatError", <<>>))
    ELSE returns(h, ok([intent |-> "CREATE", executed |-> TRUE]))

\* lines 396-398
nlDry(a, h, resp) ==
    IF resp.status = "error" THEN returns(h, err("formatError", <<>>))
    ELSE returns(h, ok([intent |-> "BATCH", executed |-> FALSE,
                        matched |-> Len(resultsOf(resp))]))

\* lines 373-387: the loop at its next record that issues a request, or the
\* summary after the last
RECURSIVE nlLoop(_, _)
nlLoop(a, h) ==
    LET f     == h.stack[1]
        lower == toLowerCase(a.text)
    IN  IF f.i > Len(f.records)
        THEN returns(h, ok([intent |-> "BATCH", executed |-> TRUE,
                            matched |-> Len(f.records), processed |-> f.processed,
                            failed |-> f.failed]))
        ELSE IF batchAction(lower) = "update" /\ batchFields(lower)
        THEN request(h, "PATCH", f.records[f.i], "nl_write")
        ELSE IF batchAction(lower) = "delete"
        THEN request(h, "DELETE", f.records[f.i], "nl_write")
        ELSE nlLoop(a, [h EXCEPT !.stack[1].i = @ + 1])

\* lines 370-372
nlMatched(a, h, resp) ==
    IF resp.status = "error" THEN returns(h, err("formatError", <<>>))
    ELSE nlLoop(a, [h EXCEPT !.stack = <<loopOver(resultsOf(resp))>>])

\* lines 374-382
nlWritten(a, h, resp) == nlLoop(a, counted(h, resp.status = "ok"))

(***************************************************************************)
(* The write tools, one action per task of the event loop                  *)
(***************************************************************************)
WriteTools == {"sn_delete", "sn_batch", "sn_nl"}

awaits(r, method) == calls[r] # <<>> /\ calls[r][Len(calls[r])].call = method

\* index.ts lines 75-102: the tool is called and runs up to its first await
ExecuteTool(r) ==
    /\ pc[r] = "idle"
    /\ args[r].tool \in WriteTools
    /\ arrival = "overlap" \/ \A q \in Reqs : pc[q] \in {"off", "idle", "done"}
    /\ IF ~parses(args[r])
       THEN put(r, returns(hOf(r), err("Invalid arguments", <<>>)))
       ELSE LET a == parse(args[r])
            IN  put(r, CASE a.tool = "sn_delete" -> deleteHandler(a, hOf(r))
                         [] a.tool = "sn_batch" -> batchHandler(a, hOf(r))
                         [] a.tool = "sn_nl" -> nlHandler(a, hOf(r)))
    /\ UNCHANGED <<rows, listing, fieldIn, extracted, faults, config, arrival, args,
                   maxDepth, direction, root, visited, classCache, allRels, origin>>

\* a client.get of a write tool is answered
GetResponse(r) ==
    /\ pc[r] \in {"matching", "nl_read", "nl_dry", "nl_match"}
    /\ LET a == parse(args[r])
       IN  put(r, CASE pc[r] = "matching" ->
                        batchMatched(a, hOf(r), TableGet(a.query, Min(a.limit, SafetyCap)))
                    [] pc[r] = "nl_read" ->
                        nlRead(a, hOf(r), TableGet(<<>>, limitOf(toLowerCase(a.text))))
                    [] pc[r] = "nl_dry" ->
                        nlDry(a, hOf(r), TableGet(<<>>, limitOf(toLowerCase(a.text))))
                    [] pc[r] = "nl_match" ->
                        nlMatched(a, hOf(r), TableGet(<<>>, limitOf(toLowerCase(a.text)))))
    /\ UNCHANGED <<rows, listing, fieldIn, extracted, faults, config, arrival, args,
                   maxDepth, direction, root, visited, classCache, allRels, origin>>

\* the client.post of sn_nl is answered
PostResponse(r) ==
    /\ pc[r] = "nl_post"
    /\ put(r, nlCreated(parse(args[r]), hOf(r), RecordPost))
    /\ UNCHANGED <<rows, listing, fieldIn, extracted, faults, config, arrival, args,
                   maxDepth, direction, root, visited, classCache, allRels, origin>>

\* a client.patch of a loop is answered
PatchResponse(r) ==
    /\ pc[r] \in {"writing", "nl_write"}
    /\ awaits(r, "PATCH")
    /\ LET a  == parse(args[r])
           id == calls[r][Len(calls[r])].key
       IN  put(r, IF pc[r] = "writing"
                  THEN batchWritten(a, hOf(r), RecordPatch(id))
                  ELSE nlWritten(a, hOf(r), RecordPatch(id)))
    /\ UNCHANGED <<rows, listing, fieldIn, extracted, faults, config, arrival, args,
                   maxDepth, direction, root, visited, classCache, allRels, origin>>

\* a client.delete is answered: the store has removed the record or refused
DeleteResponse(r) ==
    /\ pc[r] \in {"deleting", "writing", "nl_write"}
    /\ awaits(r, "DELETE")
    /\ LET a  == parse(args[r])
           id == calls[r][Len(calls[r])].key
       IN  /\ put(r, CASE pc[r] = "deleting" -> deleteAnswered(a, hOf(r), RecordDelete(id))
                       [] pc[r] = "writing" -> batchWritten(a, hOf(r), RecordDelete(id))
                       [] pc[r] = "nl_write" -> nlWritten(a, hOf(r), RecordDelete(id)))
           /\ listing' = Deleted(id)
    /\ UNCHANGED <<rows, fieldIn, extracted, faults, config, arrival, args,
                   maxDepth, direction, root, visited, classCache, allRels, origin>>

WriteNext ==
    \E r \in Reqs :
        \/ ExecuteTool(r)
        \/ GetResponse(r)
        \/ PostResponse(r)
        \/ PatchResponse(r)
        \/ DeleteResponse(r)

(***************************************************************************)
(* Initial states of the write tools                                       *)
(***************************************************************************)
ShowOpen == <<"s","h","o","w"," ","o","p","e","n"," ","i","n","c","i","d","e","n","t","s">>
HowMany == <<"H","o","w"," ","m","a","n","y"," ","s","e","r","v","e","r","s">>
NewColumns == <<"n","e","w"," ","c","o","l","u","m","n","s"," ","f","o","r"," ","i","n","c","i","d","e","n","t","s">>
VpnDown == <<"v","p","n"," ","i","s"," ","d","o","w","n">>
Prb == <<"p","r","b","0","0","0","0","0","0","1">>
Hello == <<"h","e","l","l","o">>
CreateVpn == <<"C","r","e","a","t","e"," ","i","n","c","i","d","e","n","t"," ","f","o","r"," ","V","P","N">>
OpenTicket == <<"o","p","e","n"," ","a"," ","t","i","c","k","e","t">>
UpdateAll == <<"u","p","d","a","t","e"," ","a","l","l"," ","t","a","s","k","s">>
CloseAll == <<"c","l","o","s","e"," ","a","l","l"," ","i","n","c","i","d","e","n","t","s">>
CloseTop1 == <<"b","a","t","c","h"," ","c","l","o","s","e"," ","t","o","p"," ","1"," ","i","n","c","i","d","e","n","t","s">>
BulkServers == <<"b","u","l","k"," ","s","e","r","v","e","r","s">>
DeleteAll == <<"d","e","l","e","t","e"," ","a","l","l"," ","i","n","c","i","d","e","n","t","s">>
BulkRemove == <<"b","u","l","k"," ","r","e","m","o","v","e"," ","u","s","e","r","s">>
DeleteOne == <<"d","e","l","e","t","e"," ","i","n","c","i","d","e","n","t">>

ReadPhrases == {ShowOpen, HowMany, NewColumns, VpnDown, Prb}
Phrases ==
    ReadPhrases
    \cup {CreateVpn, OpenTicket, UpdateAll, CloseAll, CloseTop1, BulkServers,
          DeleteAll, BulkRemove, DeleteOne, Hello}

\* a flag as the caller sends it: left out, true or false
Flags == {<<>>, <<TRUE>>, <<FALSE>>}

DeleteCalls == [tool : {"sn_delete"}, sys_id : {A, N}, confirm : Flags]

\* the queries of a call of sn_batch: left out, "", and sys_id=A
Queries == {<<>>, <<<<>>>>, <<SysIdEq \o A>>}

BatchCalls ==
    [tool : {"sn_batch"}, query : Queries, action : {"update", "delete"},
     fields : BOOLEAN, limit : {<<>>, <<1>>}, confirm : Flags,
     force : {<<>>, <<TRUE>>}]

NlCalls ==
    [tool : {"sn_nl"}, text : Phrases, execute : Flags, confirm : {<<>>, <<TRUE>>},
     force : {<<>>, <<TRUE>>}]

Tables == {<<>>, <<A>>, <<A, B>>, <<A, B, C>>}

WriteFaultAlphabet ==
    [call : {"GET", "POST"}, key : {<<>>}, how : {"throws"}]
    \cup {[call |-> "GET", key |-> <<>>, how |-> "empty"]}
    \cup [call : {"PATCH", "DELETE"}, key : {A, B}, how : {"throws"}]
    \cup [call : {"DELETE"}, key : {A, B}, how : {"accepted"}]

\* the variables of the other tools, at rest
Rest(active) ==
    /\ Locals(active)
    /\ rows = <<>>
    /\ config = [relDepth |-> 3]
    /\ fieldIn = NoField
    /\ extracted = NotExtracted

\* one call of one write tool, against a store that may fail one kind of request
InitWriteEach ==
    /\ Rest({"r1"})
    /\ arrival = "serial"
    /\ listing \in Tables
    /\ faults \in {{}} \cup {{f} : f \in WriteFaultAlphabet}
    /\ \E a \in DeleteCalls \cup BatchCalls \cup NlCalls : args = One(a)

\* what the three calls of InitWriteTogether choose from
Together ==
    [tool : {"sn_delete"}, sys_id : {A}, confirm : {<<TRUE>>, <<FALSE>>}]
    \cup [tool : {"sn_batch"}, query : {<<<<>>>>}, action : {"delete"}, fields : {FALSE},
          limit : {<<>>}, confirm : {<<>>, <<TRUE>>}, force : {<<>>}]
    \cup [tool : {"sn_nl"}, text : {ShowOpen, CreateVpn, DeleteAll}, execute : {<<>>, <<TRUE>>},
          confirm : {<<TRUE>>}, force : {<<TRUE>>}]

\* three calls that the client sends one after another or all at once
InitWriteTogether ==
    /\ Rest(Reqs)
    /\ arrival \in {"serial", "overlap"}
    /\ listing = <<A, B>>
    /\ faults = {}
    /\ \E a \in Together, b \in Together, c \in Together : args = Three(a, b, c)

InitWrite == InitWriteEach \/ InitWriteTogether

WriteSpec == InitWrite /\ [][WriteNext]_vars

\* a request whose outstanding remote call has not been answered yet
Pending(r) == pc[r] \in {"root", "rel", "class"}

Responds(r) == RootResponse(r) \/ RelResponse(r) \/ ClassResponse(r)

\* Every remote call is answered or fails (client.ts request resolves or
\* throws), and the event loop then runs the handler on: weak fairness
\* WF_vars(Responds(r)), written out with Pending(r) for ENABLED <<Responds(r)>>_vars
\* (each response action is enabled exactly when its pc guard holds).
Answered(r) == []<>(~Pending(r)) \/ []<><<Responds(r)>>_vars

LiveInit == InitFilters \/ InitFaults \/ InitRoots \/ InitDepths
FairSpec == LiveInit /\ [][Next]_vars /\ \A r \in Reqs : Answered(r)

(***************************************************************************)
(* Claims                                                                  *)
(***************************************************************************)
Started(r) == pc[r] \notin {"off", "idle"}
Done(r)    == pc[r] = "done"
Succeeded(r) == Done(r) /\ ~result[r].isError

\* the ids for which request r has issued a relationship-row fetch
Expanded(r) == {calls[r][k].key : k \in {j \in DOMAIN calls[r] : calls[r][j].call = "rel"}}

RelCalls(r, id) ==
    {k \in DOMAIN calls[r] : calls[r][k].call = "rel" /\ calls[r][k].key = id}

CycleFromA(r) ==
    /\ rows = Cycle3 /\ faults = {}
    /\ args[r].type = <<>> /\ args[r].sys_id = A
    /\ direction[r] = "both" /\ maxDepth[r] = 5

\* C1: within one traversal the relationship-row fetch of a node id is issued
\* at most once, whatever the graph, the filters and maxDepth; on the cycle
\* A->B->C->A walked from A with maxDepth 5, A, B and C are expanded once each.
C1_AtMostOnceExpansion ==
    \A r \in Reqs :
        /\ \A id \in Expanded(r) : Cardinality(RelCalls(r, id)) = 1
        /\ (Done(r) /\ CycleFromA(r)) => Expanded(r) = {A, B, C}

\* C1 witness: the cycle has been walked from A with maxDepth 5, and A is the
\* other endpoint of two reported edges although it was expanded once.
C1_Witness ==
    \E r \in Reqs :
        /\ Done(r) /\ CycleFromA(r)
        /\ Expanded(r) = {A, B, C}
        /\ Cardinality({k \in DOMAIN allRels[r] : allRels[r][k].sys_id = A}) >= 2

\* the depth bounds of claim C2, in every state
DepthBounded ==
    \A r \in Reqs : Started(r) /\ calls[r] # <<>> =>
        /\ maxDepth[r] >= MinDepth /\ maxDepth[r] <= MaxDepth
        /\ Len(stack[r]) <= maxDepth[r]
        /\ \A k \in DOMAIN stack[r] :
              stack[r][k].currentDepth = Len(stack[r]) + 1 - k
        /\ \A k \in DOMAIN calls[r] :
              calls[r][k].call = "rel" => calls[r][k].depth <= maxDepth[r]

\* C2: every traversal finishes and returns a result, whatever the graph, the
\* request and the failing calls; the recursion never goes deeper than the
\* clamped maxDepth (at most 5) and no node is expanded deeper than maxDepth.
C2_Termination ==
    /\ []DepthBounded
    /\ \A r \in Reqs : Started(r) ~> (Done(r) /\ result[r] # NoResult)

\* C2 witness: a walk over a cycle, with a failed fetch on the way, has
\* finished after reaching depth 3.
C2_Witness ==
    \E r \in Reqs :
        /\ Succeeded(r) /\ rows = Cycle3
        /\ \E f \in faults : f.call = "rel" /\ f.how = "throws" /\ f.key \in Expanded(r)
        /\ \E k \in DOMAIN calls[r] : calls[r][k].call = "rel" /\ calls[r][k].depth = 3

Resolved(r) == root[r].sys_id # <<>>

\* a root is given to request r and the store cannot resolve it: no record
\* for the id, a record without a name or no answer; no candidate for the name
Unresolvable(r) ==
    IF truthy(args[r].sys_id)
    THEN \/ args[r].sys_id \notin CiIds
         \/ cmdb_ci[args[r].sys_id].name = <<>>
         \/ Fails("ci", args[r].sys_id) \/ NoBody("ci", args[r].sys_id)
    ELSE /\ truthy(args[r].ci_name)
         /\ \/ \A k \in DOMAIN listing : cmdb_ci[listing[k]].name # args[r].ci_name
            \/ Fails("name", args[r].ci_name) \/ NoBody("name", args[r].ci_name)

\* the entries of allRels of request p whose class contains cls, case-insensitively
OfClass(p, cls) ==
    LET has(e) == includes(toLowerCase(e.class), toLowerCase(cls))
    IN  SelectSeq(allRels[p], has)

Others(p) == {allRels[p][k].sys_id : k \in DOMAIN allRels[p]}

\* C3: a run with classFilter issues the same sequence of relationship queries
\* and class lookups as the same request without it, and its edge list is the
\* subsequence of the unfiltered edge list whose class contains the filter,
\* case-insensitively; for A->B(Switch)->C(Server), maxDepth 2 and filter
\* "server" the result has C and not B.
C3_ClassFilterDisplayOnly ==
    \A p \in Reqs : \A q \in Reqs :
        (/\ Done(p) /\ Done(q)
         /\ truthy(args[p].class)
         /\ args[q] = [args[p] EXCEPT !.class = <<>>]) =>
            /\ calls[p] = calls[q]
            /\ visited[p] = visited[q]
            /\ result[p].isError = result[q].isError
            /\ allRels[p] = OfClass(q, args[p].class)
            /\ (/\ rows = Chain /\ faults = {} /\ maxDepth[p] = 2
                /\ args[p].sys_id = A /\ direction[p] # "upstream"
                /\ toLowerCase(args[p].class) = toLowerCase(Server)) =>
                    /\ C \in Others(p) /\ B \notin Others(p)
                    /\ B \in Expanded(p)

\* C3 witness: on A->B(Switch)->C(Server) the run with filter "server" and the
\* run without it have both ended; the filtered run reports C, not B, which
\* the unfiltered run reports.
C3_Witness ==
    \E p \in Reqs : \E q \in Reqs :
        /\ Succeeded(p) /\ Succeeded(q)
        /\ rows = Chain /\ maxDepth[p] = 2
        /\ toLowerCase(args[p].class) = toLowerCase(Server)
        /\ args[q] = [args[p] EXCEPT !.class = <<>>]
        /\ C \in Others(p) /\ B \notin Others(p) /\ B \in Others(q)

Requested(r) == IF args[r].depth = <<>> THEN config.relDepth ELSE args[r].depth[1]

\* C4: the effective maxDepth is the requested depth (the configured default
\* when none is requested) brought into 1..5; no depth is rejected; depth 0
\* returns what depth 1 returns and depth 9 what depth 5 returns.
C4_DepthClamping ==
    /\ \A r \in Reqs : (Started(r) /\ calls[r] # <<>>) =>
          /\ maxDepth[r] = (IF Requested(r) < 1 THEN 1
                            ELSE IF Requested(r) > 5 THEN 5 ELSE Requested(r))
          /\ (Done(r) /\ ~Unresolvable(r)) => ~result[r].isError
    /\ \A p \in Reqs : \A q \in Reqs :
          (/\ Done(p) /\ Done(q)
           /\ args[q] = [args[p] EXCEPT !.depth = args[q].depth]
           /\ \/ args[p].depth = <<0>> /\ args[q].depth = <<1>>
              \/ args[p].depth = <<9>> /\ args[q].depth = <<5>>) =>
              /\ result[p] = result[q]
              /\ calls[p] = calls[q]

\* C4 witness: a request with depth 0 and one with depth 1 have both ended
\* with edges reported, and so have one with depth 9 or above 5 by default.
C4_Witness ==
    \E p \in Reqs : \E q \in Reqs :
        /\ Succeeded(p) /\ Succeeded(q)
        /\ args[p].depth = <<0>> /\ args[q].depth = <<1>>
        /\ args[q] = [args[p] EXCEPT !.depth = <<1>>]
        /\ allRels[p] # <<>> /\ maxDepth[p] = 1

\* C5: the call fails with a validation error before any remote call whenever
\* both a root id and a root name are supplied or neither is; root resolution
\* proceeds only when exactly one of the two is supplied.
C5_RootValidation ==
    \A r \in Reqs : Started(r) =>
        LET hasId   == truthy(args[r].sys_id)
            hasName == truthy(args[r].ci_name)
        IN  IF hasId = hasName
            THEN /\ Done(r) /\ result[r].isError
                 /\ result[r].text = "Either ci_name or sys_id is required"
                 /\ calls[r] = <<>>
            ELSE calls[r] # <<>>

\* the rows of a successful relationship query of n that the loop reports,
\* whatever was seen before: role, self-loop, direction and type tests
Reportable(r, n) ==
    LET resp == RelQuery(n)
        recs == IF resp.status = "ok" /\ resp.hasResult THEN resp.result ELSE <<>>
    IN  {[i |-> k, v |-> rowView(recs[k], n)] : k \in
            {j \in DOMAIN recs :
                LET w == rowView(recs[j], n)
                IN  /\ w.role # "none"
                    /\ w.otherId # n
                    /\ direction[r] = "both" \/ direction[r] = w.relDir
                    /\ \/ args[r].type = <<>>
                       \/ includes(toLowerCase(w.typeName), toLowerCase(args[r].type))}}

Shown(r, id) ==
    \/ args[r].class = <<>>
    \/ includes(toLowerCase(classCache[r][id]), toLowerCase(args[r].class))

EdgesFrom(r, n) == {k \in DOMAIN allRels[r] : origin[r][k].currentId = n}

\* once request r is done, every node it expanded has had all its rows processed
RowsProcessed(r) ==
    \A n \in Expanded(r) : \A x \in Reportable(r, n) :
        Shown(r, x.v.otherId) =>
            \E k \in EdgesFrom(r, n) :
                /\ allRels[r][k].sys_id = x.v.otherId
                /\ allRels[r][k].direction = x.v.relDir

IsPrefix(s, t) == Len(s) <= Len(t) /\ SubSeq(t, 1, Len(s)) = s

C7_RootNotFound ==
    \A r \in Reqs : (Started(r) /\ Unresolvable(r)) =>
        /\ Len(calls[r]) <= 1
        /\ \A k \in DOMAIN calls[r] : calls[r][k].call # "rel"
        /\ ~Resolved(r)
        /\ Done(r) =>
              /\ result[r].isError
              /\ (~truthy(args[r].sys_id) /\ ~Fails("name", args[r].ci_name)) =>
                    /\ result[r].text = "CI not found: "
                    /\ result[r].about = args[r].ci_name

\* C7 witness: a lookup by name found no candidate and the call has ended
\* with the error naming the term, after its single remote call.
C7_Witness ==
    \E r \in Reqs :
        /\ Done(r) /\ Unresolvable(r) /\ faults = {}
        /\ ~truthy(args[r].sys_id)
        /\ result[r].isError /\ result[r].about = args[r].ci_name
        /\ Len(calls[r]) = 1

\* C8: among the edges reported while expanding one node no two have the same
\* (otherId, direction); parallel rows to the same other node in the same
\* direction give one edge, with the relation type of the first of them in
\* store order that passes the filters, and at most one recursion into it.
C8_PerNodeDedup ==
    \A r \in Reqs : \A k \in DOMAIN allRels[r] :
        LET n    == origin[r][k].currentId
            e    == allRels[r][k]
            same == {x \in Reportable(r, n) :
                        x.v.otherId = e.sys_id /\ x.v.relDir = e.direction}
            first == CHOOSE x \in same : \A y \in same : x.i <= y.i
        IN  /\ \A j \in EdgesFrom(r, n) :
                  (allRels[r][j].sys_id = e.sys_id
                      /\ allRels[r][j].direction = e.direction) => j = k
            /\ same # {}
            /\ e.type = first.v.typeName
            /\ Cardinality(RelCalls(r, e.sys_id)) <= 1

\* C8 witness: two parallel rows of different types from A to B in the same
\* direction gave one reported edge, and B was recursed into.
C8_Witness ==
    \E r \in Reqs :
        /\ Succeeded(r)
        /\ \E x, y \in Reportable(r, A) :
              /\ x.i < y.i /\ x.v.otherId = B /\ y.v.otherId = B
              /\ x.v.relDir = y.v.relDir /\ x.v.typeName # y.v.typeName
              /\ \E k \in EdgesFrom(r, A) :
                    allRels[r][k].sys_id = B /\ allRels[r][k].type = x.v.typeName
        /\ B \in Expanded(r)

EdgeSet(r) ==
    {<<allRels[r][k].sys_id, allRels[r][k].type, allRels[r][k].direction>> :
        k \in DOMAIN allRels[r]}

\* u, d and b are the same request in the directions upstream, downstream, both
DirectionRuns(u, d, b) ==
    /\ Done(u) /\ Done(d) /\ Done(b)
    /\ ~args[b].impact /\ args[b].direction = "both"
    /\ args[u] = [args[b] EXCEPT !.direction = "upstream"]
    /\ args[d] = [args[b] EXCEPT !.direction = "downstream"]

\* C9: for any graph, root and maxDepth, the edges of an upstream run united
\* with the edges of a downstream run, as sets of (otherId, relationType,
\* direction), are the edges of one run with direction both.
C9_DirectionUnion ==
    \A u \in Reqs : \A d \in Reqs : \A b \in Reqs :
        DirectionRuns(u, d, b) => EdgeSet(u) \cup EdgeSet(d) = EdgeSet(b)

\* C9 as amended: with maxDepth 1 the edges of an upstream run united with the
\* edges of a downstream run are the edges of one run with direction both.
C9_DirectionUnionAtDepth1 ==
    \A u \in Reqs : \A d \in Reqs : \A b \in Reqs :
        (DirectionRuns(u, d, b) /\ maxDepth[b] = 1) =>
            EdgeSet(u) \cup EdgeSet(d) = EdgeSet(b)

\* C9 witness: the three runs with maxDepth 1 have ended, the upstream run and
\* the downstream run each with an edge.
C9_Witness ==
    \E u \in Reqs : \E d \in Reqs : \E b \in Reqs :
        /\ DirectionRuns(u, d, b) /\ maxDepth[b] = 1
        /\ EdgeSet(u) # {} /\ EdgeSet(d) # {}
        /\ EdgeSet(b) = EdgeSet(u) \cup EdgeSet(d)

\* what follows the last "/" of s
AfterLastSlash(s) ==
    LET at   == {k \in DOMAIN s : s[k] = "/"}
        last == IF at = {} THEN 0 ELSE CHOOSE k \in at : \A j \in at : j <= k
    IN  SubSeq(s, last + 1, Len(s))

\* the id an endpoint of a row carries: the string itself, the value, or the
\* trailing segment of the link
EndId(e) ==
    IF e.shape = "string" THEN e.str
    ELSE IF e.value # <<>> THEN e.value
    ELSE AfterLastSlash(e.link)

\* the rows of the store with n as parent or child, in the store's order
Incident(n) ==
    LET hit(r) == r.parent.id = n \/ r.child.id = n
    IN  SelectSeq(rows, hit)

\* C11: each expansion considers at most 100 relationship rows: every
\* reported edge comes from one of the first 100 rows of its node; when A has
\* 101 rows, the 101st being the only row to C, C is in no edge, has no class
\* lookup and is not expanded, and the call still succeeds.
C11_RowCap ==
    \A r \in Reqs :
        /\ \A k \in DOMAIN stack[r] : Len(stack[r][k].records) <= 100
        /\ \A k \in DOMAIN origin[r] :
              /\ origin[r][k].i <= 100
              /\ LET n == origin[r][k].currentId
                     rec == Incident(n)[origin[r][k].i]
                 IN  allRels[r][k].sys_id \in {EndId(rec.parent), EndId(rec.child)}
        /\ (/\ Len(Incident(A)) = 101
            /\ Incident(A)[101].child.id = C
            /\ \A k \in 1..100 : C \notin {rows[k].parent.id, rows[k].child.id}) =>
                /\ C \notin Others(r)
                /\ \A k \in DOMAIN calls[r] : calls[r][k].key # C
                /\ Done(r) => ~result[r].isError /\ result[r].meta.total = Len(allRels[r])

\* C11 witness: A has 101 rows, the 101st the only one to C and passing the
\* request's filters; the call from A has ended with edges and without C.
C11_Witness ==
    \E r \in Reqs :
        /\ Succeeded(r) /\ args[r].sys_id = A
        /\ Len(Incident(A)) = 101 /\ Incident(A)[101].child.id = C
        /\ direction[r] # "upstream"
        /\ allRels[r] # <<>> /\ C \notin Others(r)

\* a call of handler with arguments a, run to its end with no other call
\* under way, against the same store
RECURSIVE RunAlone(_, _)
RunAlone(ctx, env) ==
    IF ctx.pc = "done" THEN ctx
    ELSE IF ctx.pc = "rel" THEN RunAlone(relAnswered(ctx, env), env)
    ELSE RunAlone(classAnswered(ctx, env), env)

Alone(a) ==
    IF rootMissing(a) THEN err("Either ci_name or sys_id is required", <<>>)
    ELSE LET res == resolveRoot(a) IN
         IF res.kind = "threw" THEN err("formatError", <<>>)
         ELSE IF res.kind = "missing" THEN err(res.text, res.about)
         ELSE LET env == [args |-> a,
                          maxDepth |-> clampDepth(a.depth, config.relDepth),
                          direction |-> effectiveDirection(a),
                          root |-> res.root]
                  ctx == [stack |-> <<>>, visited |-> {res.root.sys_id},
                          classCache |-> mapSet(<<>>, res.root.sys_id, res.root.class),
                          allRels |-> <<>>, origin |-> <<>>, calls |-> <<>>,
                          pc |-> "root", result |-> NoResult]
              IN  RunAlone(traverse(ctx, env, res.root.sys_id, 1), env).result

\* a step that is not a step of request q
NotStepOf(q) == pc'[q] = pc[q] /\ calls'[q] = calls[q]

\* C12: requests that interleave at their remote calls share no visited set,
\* class cache or result list: a step of one request leaves those of the
\* others as they are, and every request, interleaved with others or started
\* after another has finished, returns the result it returns when run alone
\* against the same store.
C12_RequestIsolation ==
    /\ [](\A r \in Reqs : Done(r) => result[r] = Alone(args[r]))
    /\ [][\A q \in Reqs : NotStepOf(q) =>
              /\ visited'[q] = visited[q]
              /\ classCache'[q] = classCache[q]
              /\ allRels'[q] = allRels[q]
              /\ stack'[q] = stack[q]
              /\ result'[q] = result[q]]_vars

\* C12 witness: two requests were under way at the same time, each having
\* expanded a node the other has expanded too, and one has ended with edges.
C12_Witness ==
    \E p \in Reqs : \E q \in Reqs :
        /\ p # q /\ arrival = "overlap"
        /\ Succeeded(p) /\ allRels[p] # <<>>
        /\ Pending(q) /\ stack[q] # <<>>
        /\ Cardinality(Expanded(p) \cap Expanded(q)) >= 2
        /\ args[p].sys_id # args[q].sys_id

\* C13: extractValue yields a bare string itself, the value of a structure
\* that has one, the trailing path segment of the link of a structure that
\* has a link and no value, and empty for anything else; {value: id1} gives
\* id1, {link: https://x/y/id2} gives id2, "id3" gives id3 and a string of
\* 32 'a' gives that string.
C13_ExtractId ==
    extracted.done =>
        LET f == fieldIn
            v == extracted.value
        IN  /\ f.shape = "string" => v = f.str
            /\ (f.shape = "object" /\ f.value # <<>>) => v = f.value
            /\ (f.shape = "object" /\ f.value = <<>> /\ f.link # <<>>) =>
                    v = AfterLastSlash(f.link)
            /\ (f.shape = "object" /\ f.value = <<>> /\ f.link = <<>>) => v = <<>>
            /\ f.shape \notin {"string", "object"} => v = <<>>
            /\ (f.shape = "object" /\ f.value = <<"i","d","1">>) => v = <<"i","d","1">>
            /\ (f.shape = "object" /\ f.value = <<>> /\ f.link = LinkToId2) =>
                    v = <<"i","d","2">>
            /\ (f.shape = "string" /\ f.str = <<"i","d","3">>) => v = <<"i","d","3">>
            /\ (f.shape = "string" /\ f.str = [k \in 1..32 |-> "a"]) =>
                    Len(v) = 32 /\ \A k \in 1..32 : v[k] = "a"

\* C13 witness: a structure with a link ending in /id2 and no value has been
\* decoded to id2.
C13_Witness ==
    /\ extracted.done
    /\ fieldIn.shape = "object" /\ fieldIn.value = <<>> /\ fieldIn.link = LinkToId2
    /\ extracted.value = <<"i","d","2">>

AnyHex == {"0","1","2","3","4","5","6","7","8","9",
           "a","b","c","d","e","f","A","B","C","D","E","F"}
LowHex == {"0","1","2","3","4","5","6","7","8","9","a","b","c","d","e","f"}

RelIdx(r) == {j \in DOMAIN calls[r] : calls[r][j].call = "rel"}

\* C15: the depth of every reported edge is the depth at which its source
\* node was being expanded: 1 for the root's edges, k+1 for the edges of a node
\* recursed into from an expansion at depth k; every depth is in 1..maxDepth.
C15_EdgeDepth ==
    \A r \in Reqs :
        /\ \A j \in RelIdx(r) :
              IF calls[r][j].from = <<>>
              THEN calls[r][j].depth = 1 /\ calls[r][j].key = root[r].sys_id
              ELSE \E i \in RelIdx(r) :
                      /\ i < j /\ calls[r][i].key = calls[r][j].from
                      /\ calls[r][j].depth = calls[r][i].depth + 1
        /\ \A k \in DOMAIN allRels[r] :
              /\ allRels[r][k].depth \in 1..maxDepth[r]
              /\ origin[r][k].currentId = root[r].sys_id => allRels[r][k].depth = 1
              /\ \E j \in RelIdx(r) :
                    /\ calls[r][j].key = origin[r][k].currentId
                    /\ calls[r][j].depth = allRels[r][k].depth

\* C15 witness: a call has ended with an edge found at the root and an edge
\* found at a node reached from the root, below the deepest level allowed.
C15_Witness ==
    \E r \in Reqs :
        /\ Succeeded(r) /\ maxDepth[r] >= 3
        /\ \E k \in DOMAIN allRels[r] : allRels[r][k].depth = 1
        /\ \E k \in DOMAIN allRels[r] :
              /\ allRels[r][k].depth = 2
              /\ origin[r][k].currentId # root[r].sys_id

\* C16: the direction of an edge is relative to the node that was being
\* expanded when it was found, not to the root: downstream exactly when that
\* node is the row's parent and the other endpoint its child, upstream exactly
\* when it is the row's child and the other endpoint its parent; a returned
\* row of which the expanding node is neither endpoint yields no edge.
C16_EdgeDirection ==
    \A r \in Reqs : \A k \in DOMAIN allRels[r] :
        LET n   == origin[r][k].currentId
            rec == Incident(n)[origin[r][k].i]
            pid == EndId(rec.parent)
            cid == EndId(rec.child)
            e   == allRels[r][k]
        IN  /\ pid = n \/ cid = n
            /\ e.direction \in {"upstream", "downstream"}
            /\ e.direction = "downstream" <=> (pid = n /\ e.sys_id = cid)
            /\ e.direction = "upstream" <=> (cid = n /\ e.sys_id = pid)

\* C16 witness: a call from A has ended; a row returned for A has A as
\* neither endpoint and gave no edge; B was found downstream of A, and at B an
\* edge was found upstream to C.
C16_Witness ==
    \E r \in Reqs :
        /\ Succeeded(r) /\ root[r].sys_id = A
        /\ \E i \in DOMAIN Incident(A) :
              /\ EndId(Incident(A)[i].parent) # A /\ EndId(Incident(A)[i].child) # A
              /\ \A k \in DOMAIN origin[r] : origin[r][k] # [currentId |-> A, i |-> i]
        /\ \E k \in DOMAIN allRels[r] :
              /\ origin[r][k].currentId = A
              /\ allRels[r][k].sys_id = B /\ allRels[r][k].direction = "downstream"
        /\ \E k \in DOMAIN allRels[r] :
              /\ origin[r][k].currentId = B
              /\ allRels[r][k].sys_id = C /\ allRels[r][k].direction = "upstream"

\* C17: with impact = true the effective direction is upstream whatever
\* direction was given: every reported edge is upstream, every node recursed
\* into is the parent of a row whose child is the node it was reached from,
\* and meta.direction is upstream.
C17_ImpactUpstream ==
    \A r \in Reqs :
        (args[r].impact /\ calls[r] # <<>>) =>
            /\ direction[r] = "upstream"
            /\ \A k \in DOMAIN allRels[r] : allRels[r][k].direction = "upstream"
            /\ \A j \in RelIdx(r) :
                  calls[r][j].from # <<>> =>
                      \E i \in DOMAIN rows :
                          /\ EndId(rows[i].child) = calls[r][j].from
                          /\ EndId(rows[i].parent) = calls[r][j].key
            /\ Succeeded(r) => result[r].meta.direction = "upstream"

\* C17 witness: a call with impact = true and direction = downstream has
\* ended with an upstream edge found at a node it recursed into, on a store
\* that has a row downstream of the root.
C17_Witness ==
    \E r \in Reqs :
        /\ Succeeded(r) /\ args[r].impact /\ args[r].direction = "downstream"
        /\ \E i \in DOMAIN rows : EndId(rows[i].parent) = root[r].sys_id
        /\ \E k \in DOMAIN allRels[r] :
              allRels[r][k].depth = 2 /\ allRels[r][k].direction = "upstream"

\* the positions in the store's listing of the records named name
Named(name) == {k \in DOMAIN listing : cmdb_ci[listing[k]].name = name}

\* C18: when the root is given by name, one lookup by exact name, capped at
\* 5 candidates, is issued; the result's root (id, name, class) is the first
\* candidate in the store's order, whichever that is; the traversal expands
\* that node as the root and starts from no other candidate.
C18_RootByName ==
    \A r \in Reqs :
        (/\ Started(r) /\ ~truthy(args[r].sys_id) /\ truthy(args[r].ci_name)
         /\ faults = {}) =>
            LET name  == args[r].ci_name
                resp  == CiQuery(name)
                first == listing[CHOOSE k \in Named(name) : \A j \in Named(name) : k <= j]
            IN  /\ calls[r][1] = [call |-> "name", key |-> name, depth |-> 0, from |-> <<>>]
                /\ \A j \in DOMAIN calls[r] : calls[r][j].call = "name" => j = 1
                /\ Len(resp.result) <= 5
                /\ \A k \in DOMAIN resp.result : resp.result[k].name = name
                /\ (Done(r) /\ Named(name) = {}) => result[r].isError
                /\ (Done(r) /\ Named(name) # {}) =>
                      /\ ~result[r].isError
                      /\ result[r].root = [sys_id |-> first, name |-> name,
                                           class |-> cmdb_ci[first].sys_class_name]
                      /\ \A j \in RelIdx(r) :
                            calls[r][j].from = <<>> => calls[r][j].key = first
                      /\ Cardinality({j \in RelIdx(r) : calls[r][j].from = <<>>}) = 1

\* C18 witness: six records have the name asked for and the store lists
\* another one than A first; the call has ended with that record as root and
\* with an edge.
C18_Witness ==
    \E r \in Reqs :
        /\ Succeeded(r) /\ ~truthy(args[r].sys_id)
        /\ Cardinality(Named(args[r].ci_name)) = 6
        /\ result[r].root.sys_id = listing[1] /\ listing[1] = <<"H">>
        /\ listing[2] = A
        /\ allRels[r] # <<>>

\* C19: in every successful result meta.total is the number of entries of
\* relationships, meta.depth is the clamped maxDepth of the request and not
\* the deepest level reached, meta.direction is the effective direction and
\* root is the resolved root node.
C19_ResultSummary ==
    \A r \in Reqs :
        Succeeded(r) =>
            LET res == result[r]
                id  == IF truthy(args[r].sys_id) THEN args[r].sys_id
                       ELSE listing[CHOOSE k \in Named(args[r].ci_name) :
                                        \A j \in Named(args[r].ci_name) : k <= j]
            IN  /\ res.relationships = allRels[r]
                /\ res.meta.total = Len(res.relationships)
                /\ res.meta.depth = (IF Requested(r) < 1 THEN 1
                                     ELSE IF Requested(r) > 5 THEN 5 ELSE Requested(r))
                /\ res.meta.direction =
                      (IF args[r].impact THEN "upstream" ELSE args[r].direction)
                /\ res.root = [sys_id |-> id, name |-> cmdb_ci[id].name,
                               class |-> cmdb_ci[id].sys_class_name]

\* C19 witness: a call allowed to go to depth 5 has ended with edges, none
\* deeper than 2, and its summary says depth 5.
C19_Witness ==
    \E r \in Reqs :
        /\ Succeeded(r) /\ allRels[r] # <<>>
        /\ result[r].meta.depth = 5
        /\ \A k \in DOMAIN allRels[r] : allRels[r][k].depth <= 2
        /\ result[r].meta.total = Len(allRels[r])

\* the requests of the methods of M that call r has issued
Issued(r, M) == {k \in DOMAIN calls[r] : calls[r][k].call \in M}

\* no call has issued a DELETE, so the table is as it was at the start
Untouched == \A q \in Reqs : Issued(q, {"DELETE"}) = {}

\* what a successful call reports
Report(r) == result[r].data

\* the positions in the table of the records an encoded query selects
Selected(query) ==
    {k \in DOMAIN listing : query = <<>> \/ query = SysIdEq \o listing[k]}

\* the report of a dry run of sn_batch
DryRun(r) == "dry_run" \in DOMAIN Report(r) /\ Report(r).dry_run

\* C20: writes need an explicit opt-in.  A call of sn_delete whose confirm
\* is not true issues no DELETE request.  A call of sn_batch whose confirm is
\* not true (left out, or false) issues no PATCH and no DELETE request, and
\* when it succeeds it is a dry run that reports the number of records its
\* query returned.  A call of sn_nl whose execute is not true issues no POST,
\* PATCH or DELETE request; a call of sn_nl whose text is a read (a schema,
\* aggregate or query request that names a table) issues its GET request as
\* soon as it is called, whatever execute is.
C20_WriteOptIn ==
    \A r \in Reqs :
        Started(r) =>
            LET a == args[r]
            IN  /\ a.tool = "sn_delete" /\ a.confirm # <<TRUE>> =>
                    Issued(r, {"DELETE"}) = {}
                /\ a.tool = "sn_batch" /\ a.confirm # <<TRUE>> =>
                    /\ Issued(r, {"PATCH", "DELETE", "POST"}) = {}
                    /\ Succeeded(r) =>
                        /\ DryRun(r)
                        /\ Untouched /\ ~NoBody("GET", <<>>) =>
                            Report(r).matched =
                                IF a.limit = <<>> THEN Cardinality(Selected(a.query[1]))
                                ELSE Min(a.limit[1], Cardinality(Selected(a.query[1])))
                /\ a.tool = "sn_nl" /\ a.execute # <<TRUE>> =>
                    Issued(r, {"POST", "PATCH", "DELETE"}) = {}
                /\ a.tool = "sn_nl" /\ a.text \in ReadPhrases =>
                    calls[r] = <<[call |-> "GET", key |-> <<>>]>>

\* three calls have returned: a delete without confirm that was refused, a
\* batch delete without confirm that reported its two matches as a dry run,
\* and a natural-language create without execute, none having written; the
\* table still holds both records
C20_Witness ==
    /\ listing = <<A, B>>
    /\ \E r1 \in Reqs, r2 \in Reqs, r3 \in Reqs :
        /\ Done(r1) /\ Done(r2) /\ Done(r3)
        /\ args[r1].tool = "sn_delete" /\ args[r1].confirm = <<FALSE>>
        /\ result[r1].isError /\ calls[r1] = <<>>
        /\ args[r2].tool = "sn_batch" /\ args[r2].confirm = <<>>
        /\ Succeeded(r2) /\ DryRun(r2) /\ Report(r2).matched = 2
        /\ Issued(r2, {"GET"}) # {} /\ Issued(r2, {"PATCH", "DELETE"}) = {}
        /\ args[r3].tool = "sn_nl" /\ args[r3].text = CreateVpn /\ args[r3].execute = <<>>
        /\ Succeeded(r3) /\ ~Report(r3).executed /\ calls[r3] = <<>>

\* a call of sn_nl whose text asks for a bulk delete
NlBulkDelete(r) ==
    args[r].tool = "sn_nl" /\ args[r].text \in {DeleteAll, BulkRemove}

\* C21: bulk deletes require both the confirm and the force flags.  A call
\* of sn_batch with action delete, or a call of sn_nl whose text is a batch
\* delete, has issued a DELETE request only if its confirm and its force
\* were both given as true.
C21_BulkDeleteNeedsForce ==
    \A r \in Reqs :
        Started(r)
        /\ ((args[r].tool = "sn_batch" /\ args[r].action = "delete") \/ NlBulkDelete(r))
        /\ Issued(r, {"DELETE"}) # {}
        => args[r].confirm = <<TRUE>> /\ args[r].force = <<TRUE>>

\* C22: sn_batch refuses to operate on all records.  A call of sn_batch
\* whose query is left out or is the empty string issues no PATCH and no
\* DELETE request, whatever confirm is.
C22_BatchNeedsQuery ==
    \A r \in Reqs :
        Started(r) /\ args[r].tool = "sn_batch" /\ args[r].query \in {<<>>, <<<<>>>>}
        => Issued(r, {"PATCH", "DELETE"}) = {}

\* the class lookups of getClass that request r has issued for node id
ClassLookups(r, id) ==
    {k \in DOMAIN calls[r] :
        calls[r][k].call = "ci" /\ calls[r][k].depth >= 1 /\ calls[r][k].key = id}

\* the store gives no class for node id: the lookup fails, has no body, or
\* the record has an empty class
Classless(id) ==
    \/ Fails("ci", id) \/ NoBody("ci", id) \/ id \notin CiIds
    \/ cmdb_ci[id].sys_class_name = <<>>

\* C23: within one traversal at most one class lookup is issued per node
\* id and none for the root, whose class is in the cache from the start;
\* every node for which a lookup was issued and answered is in the cache,
\* with "unknown" when the lookup failed or gave no class, and every edge
\* to a node reports the cached class, so that all edges to a node whose
\* lookup failed report "unknown" after one lookup.
C23_ClassCache ==
    \A r \in Reqs :
        pc[r] \in {"rel", "class", "done"} /\ root[r].sys_id # <<>> =>
            /\ ClassLookups(r, root[r].sys_id) = {}
            /\ root[r].sys_id \in DOMAIN classCache[r]
            /\ classCache[r][root[r].sys_id] = root[r].class
            /\ \A id \in CiIds \cup {Z} :
                /\ Cardinality(ClassLookups(r, id)) <= 1
                /\ ClassLookups(r, id) # {}
                   /\ ~(pc[r] = "class" /\ calls[r][Len(calls[r])].key = id)
                   => /\ id \in DOMAIN classCache[r]
                      /\ Classless(id) => classCache[r][id] = unknown
            /\ \A k \in DOMAIN allRels[r] :
                LET e == allRels[r][k]
                IN  /\ e.sys_id \in DOMAIN classCache[r]
                    /\ e.class = classCache[r][e.sys_id]
                    /\ e.sys_id # root[r].sys_id => ClassLookups(r, e.sys_id) # {}

\* C23 witness: a traversal has ended with two edges to node B, whose one
\* class lookup failed, both reporting "unknown", and with an edge back to
\* the root with the root's class and no lookup.
C23_Witness ==
    \E r \in Reqs :
        /\ Succeeded(r) /\ Fails("ci", B) /\ root[r].sys_id = A
        /\ Cardinality(ClassLookups(r, B)) = 1
        /\ Cardinality({k \in DOMAIN allRels[r] :
                allRels[r][k].sys_id = B /\ allRels[r][k].class = unknown}) >= 2
        /\ \E k \in DOMAIN allRels[r] :
                allRels[r][k].sys_id = A /\ allRels[r][k].class = root[r].class

\* the kind of remote call request r waits for
Awaited(r) ==
    CASE pc[r] = "root" -> {"ci", "name"}
      [] pc[r] = "rel" -> {"rel"}
      [] pc[r] = "class" -> {"ci"}
      [] OTHER -> {}

\* the rows of one expansion were taken in the store's order: the edges
\* found at a node come from rows of increasing position among the rows of
\* that node as the store lists them
InStoreOrder(r) ==
    \A k \in DOMAIN allRels[r] :
        LET o == origin[r][k]
            n == Incident(o.currentId)
        IN  /\ o.i <= Len(n)
            /\ allRels[r][k].sys_id \in {EndId(n[o.i].parent), EndId(n[o.i].child)}
            /\ allRels[r][k].type = n[o.i].type.display_value
            /\ \A l \in DOMAIN allRels[r] :
                  k < l /\ origin[r][l].currentId = o.currentId => o.i < origin[r][l].i

\* C24: within one traversal at most one remote call is outstanding: a
\* request that waits waits for the last call of its log and for no other,
\* a step issues at most one call for a request, and it issues one only
\* when the request had no call yet or when the step is the completion
\* (answer or failure) of the call the request was waiting for; the rows of
\* one expansion are processed in store order.
C24_SequentialExpansion ==
    /\ [](\A r \in Reqs :
            /\ Pending(r) => /\ calls[r] # <<>>
                             /\ calls[r][Len(calls[r])].call \in Awaited(r)
            /\ pc[r] \in {"off", "idle"} => calls[r] = <<>>
            /\ InStoreOrder(r))
    /\ [][\A r \in Reqs :
            calls'[r] # calls[r] =>
                /\ Len(calls'[r]) = Len(calls[r]) + 1
                /\ SubSeq(calls'[r], 1, Len(calls[r])) = calls[r]
                /\ pc[r] = "idle" \/ Pending(r)
                /\ Pending(r) =>
                      \/ RootResponse(r) \/ RelResponse(r) \/ ClassResponse(r)
                /\ pc'[r] \in {"root", "rel", "class"}]_vars

\* C24 witness: a traversal waits for the answer of its fifth or later
\* call, has already reported edges found at two nodes, and two of its
\* edges come from two rows of the same node.
C24_Witness ==
    \E r \in Reqs :
        /\ Pending(r) /\ Len(calls[r]) >= 5
        /\ \E k, l \in DOMAIN allRels[r] :
              /\ k < l /\ origin[r][k].currentId = origin[r][l].currentId
              /\ allRels[r][k].sys_id # allRels[r][l].sys_id
        /\ \E k, l \in DOMAIN allRels[r] :
              origin[r][k].currentId # origin[r][l].currentId

\* the relation-type text of a stored row contains the type filter of request r
TypePasses(r, row) ==
    \/ args[r].type = <<>>
    \/ includes(toLowerCase(IF row.type.display_value = <<>> THEN RelatedTo
                            ELSE row.type.display_value),
                toLowerCase(args[r].type))

\* the store has a row whose type passes the filter of r and that leads from
\* n to m in direction dir
Link(r, n, m, dir) ==
    \E j \in DOMAIN rows :
        /\ TypePasses(r, rows[j])
        /\ \/ dir = "downstream" /\ rows[j].parent.id = n /\ rows[j].child.id = m
           \/ dir = "upstream" /\ rows[j].child.id = n /\ rows[j].parent.id = m

\* C25: a row whose relation-type text does not contain the type filter
\* (case-insensitively) is skipped entirely.  Every reported edge has a type
\* that contains the filter and comes from a stored row of that type; every
\* class lookup and every recursion goes along a stored row whose type
\* passes the filter; and a row that does not pass does not use up the
\* (otherId, direction) key: when a call has ended, every node it expanded
\* has an edge for each (otherId, direction) to which a passing row leads,
\* unless the class filter hides it.
C25_TypeFilter ==
    \A r \in Reqs :
        /\ \A k \in DOMAIN allRels[r] :
              LET e == allRels[r][k]
              IN  /\ args[r].type # <<>> =>
                        includes(toLowerCase(e.type), toLowerCase(args[r].type))
                  /\ Link(r, origin[r][k].currentId, e.sys_id, e.direction)
        /\ \A j \in DOMAIN calls[r] :
              LET c == calls[r][j]
              IN  c.from # <<>> => \E dir \in {"upstream", "downstream"} :
                                      Link(r, c.from, c.key, dir)
        /\ Succeeded(r) =>
              \A n \in Expanded(r), m \in NodeIds, dir \in {"upstream", "downstream"} :
                  /\ ~Fails("rel", n) /\ ~NoBody("rel", n)
                  /\ m # n
                  /\ direction[r] \in {"both", dir}
                  /\ Link(r, n, m, dir)
                  => \/ \E k \in EdgesFrom(r, n) :
                            allRels[r][k].sys_id = m /\ allRels[r][k].direction = dir
                     \/ m \in DOMAIN classCache[r] /\ ~Shown(r, m)

\* C25 witness: with the type filter "USE", A has a row to B of type
\* "Runs on" and after it a row to B of type "Uses" in the same direction;
\* the call has ended with the edge from A to B of type "Uses" as its only
\* edge found at A.
C25_Witness ==
    \E r \in Reqs :
        /\ Succeeded(r) /\ args[r].type = <<"U","S","E">> /\ root[r].sys_id = A
        /\ \E i, j \in DOMAIN rows :
              /\ i < j
              /\ rows[i] = Row(A, B, RunsOn) /\ rows[j] = Row(A, B, Uses)
        /\ \E k \in EdgesFrom(r, A) :
              /\ allRels[r][k].sys_id = B /\ allRels[r][k].type = Uses
              /\ allRels[r][k].direction = "downstream"
        /\ Cardinality(EdgesFrom(r, A)) = 1

\* the display string an endpoint of a stored row carries: the display value
\* of a structure, a bare string itself unless it is a 32-character
\* hexadecimal id, and nothing otherwise
Carried(f) ==
    IF f.shape = "string"
    THEN IF Len(f.str) = SysIdLength /\ \A k \in DOMAIN f.str : f.str[k] \in LowHex
         THEN <<>> ELSE f.str
    ELSE IF f.shape = "object" /\ "display_value" \in DOMAIN f
         THEN f.display_value ELSE <<>>

\* C26: the name of a reported edge is the display name extracted from the
\* other endpoint of its row, empty when that endpoint carries no display
\* string or is a bare 32-character hexadecimal id; it is never the raw id.
C26_EdgeNameIsDisplay ==
    \A r \in Reqs : \A k \in DOMAIN allRels[r] :
        LET e   == allRels[r][k]
            row == Incident(origin[r][k].currentId)[origin[r][k].i]
        IN  \E f \in {row.parent, row.child} :
                /\ EndId(f) = e.sys_id
                /\ e.name = Carried(f)
                /\ (e.sys_id # <<>> /\ Carried(f) = <<>>) => e.name # e.sys_id

\* the node ids that request r reports as other endpoints
Reported(r) == {allRels[r][k].sys_id : k \in DOMAIN allRels[r]}

\* no query of the store is cut off at the row limit
Untruncated == \A n \in CiIds : Len(Incident(n)) <= RowLimit

\* C27: with no remote failure and no truncated query, a call at depth d + 1
\* reports every node that the same call at depth d reports, 1 <= d < 5.
C27_DepthMonotone ==
    \A r \in Reqs, q \in Reqs :
        ( /\ Succeeded(r) /\ Succeeded(q)
          /\ faults = {} /\ Untruncated
          /\ [args[r] EXCEPT !.depth = <<>>] = [args[q] EXCEPT !.depth = <<>>]
          /\ maxDepth[r] \in MinDepth..(MaxDepth - 1)
          /\ maxDepth[q] = maxDepth[r] + 1 )
        => Reported(r) \subseteq Reported(q)

\* the directions in which request r follows a row (impact analysis goes
\* upstream whatever direction was asked for)
Followed(r) ==
    IF direction[r] = "both" THEN {"upstream", "downstream"}
    ELSE {direction[r]}

\* the nodes one permitted row away from a node of S
Hop(r, S) ==
    {m \in CiIds : \E n \in S, dir \in Followed(r) : Link(r, n, m, dir)}

\* the nodes between one and k permitted rows away from a node of S
RECURSIVE Within(_, _, _)
Within(r, S, k) ==
    IF k = 0 THEN {} ELSE Hop(r, S) \cup Within(r, Hop(r, S), k - 1)

\* C28: with no type or class filter, no remote failure and no truncated
\* query, every node other than the root that a path of at most maxDepth
\* rows, each followed in a permitted direction, connects to the root is the
\* other endpoint of a reported edge.
C28_CompleteWithinDepth ==
    \A r \in Reqs :
        ( /\ Succeeded(r)
          /\ faults = {} /\ Untruncated
          /\ args[r].type = <<>> /\ args[r].class = <<>> )
        => Within(r, {root[r].sys_id}, maxDepth[r]) \ {root[r].sys_id} \subseteq Reported(r)

\* the nodes exactly k permitted rows away from a node of S
RECURSIVE Exactly(_, _, _)
Exactly(r, S, k) == IF k = 0 THEN S ELSE Exactly(r, Hop(r, S), k - 1)

\* C29: every reported edge at depth d with other endpoint m comes from a
\* stored row between m and a node that was expanded at depth d, the row
\* passing the direction and type filters, and a chain of exactly d stored
\* rows that all pass these filters leads from the root to m; visited is the
\* root plus the nodes that have been recursed into.
C29_SoundEdges ==
    \A r \in Reqs :
        /\ \A k \in DOMAIN allRels[r] :
              LET e   == allRels[r][k]
                  cur == origin[r][k].currentId
              IN  /\ origin[r][k].i \in DOMAIN Incident(cur)
                  /\ e.direction \in Followed(r)
                  /\ TypePasses(r, Incident(cur)[origin[r][k].i])
                  /\ LET row == Incident(cur)[origin[r][k].i]
                     IN  IF e.direction = "downstream"
                         THEN row.parent.id = cur /\ row.child.id = e.sys_id
                         ELSE row.child.id = cur /\ row.parent.id = e.sys_id
                  /\ \E j \in RelIdx(r) :
                        calls[r][j].key = cur /\ calls[r][j].depth = e.depth
                  /\ e.depth >= 1
                  /\ e.sys_id \in Exactly(r, {root[r].sys_id}, e.depth)
        /\ RelIdx(r) # {} =>
              /\ visited[r] = {root[r].sys_id} \cup Expanded(r)
              /\ visited[r] = {root[r].sys_id}
                     \cup {calls[r][j].key : j \in {i \in RelIdx(r) : calls[r][i].depth > 1}}
        /\ RelIdx(r) = {} => visited[r] \subseteq {root[r].sys_id}

\* a call has ended with an edge two rows from the root and with three nodes
\* in visited
C29_Witness ==
    \E r \in Reqs :
        /\ Succeeded(r)
        /\ Cardinality(visited[r]) >= 3
        /\ \E k \in DOMAIN allRels[r] :
              /\ allRels[r][k].depth = 2
              /\ allRels[r][k].sys_id # root[r].sys_id
              /\ origin[r][k].currentId # root[r].sys_id

\* node x was expanded in the expansion subtree of node n, at most k
\* recursions below it
RECURSIVE Under(_, _, _, _)
Under(r, x, n, k) ==
    \/ x = n
    \/ /\ k > 0
       /\ \E j \in RelIdx(r) :
             /\ calls[r][j].key = x
             /\ calls[r][j].from # <<>>
             /\ Under(r, calls[r][j].from, n, k - 1)

\* the edges found in the expansion subtree of node n
Subtree(r, n) ==
    {k \in DOMAIN allRels[r] : Under(r, origin[r][k].currentId, n, MaxDepth)}

\* C30: the edge list is in depth-first discovery order.  The edges of one
\* expansion are in the store's row order; between two edges of one
\* expansion lie only edges of its subtree; the edges of the subtree that an
\* edge started follow that edge without a gap; and when an expansion is
\* started from a row whose edge is reported, that edge is the last of the
\* list at that moment.
C30_DepthFirstOrder ==
    /\ [](\A r \in Reqs :
            /\ \A k, l \in DOMAIN allRels[r] :
                  (k < l /\ origin[r][k].currentId = origin[r][l].currentId) =>
                      /\ origin[r][k].i < origin[r][l].i
                      /\ \A x \in k..l : x \in Subtree(r, origin[r][k].currentId)
            /\ \A k \in DOMAIN allRels[r] :
                  LET cur == origin[r][k].currentId
                      row == Incident(cur)[origin[r][k].i]
                  IN  /\ origin[r][k].i \in DOMAIN Incident(cur)
                      /\ allRels[r][k].sys_id \in {row.parent.id, row.child.id} \ {cur}
            /\ \A j \in RelIdx(r) :
                  LET c     == calls[r][j]
                      first == {k \in DOMAIN allRels[r] :
                                  /\ origin[r][k].currentId = c.from
                                  /\ allRels[r][k].sys_id = c.key}
                  IN  (c.from # <<>> /\ first # {}) =>
                          LET k == CHOOSE k \in first : \A l \in first : k <= l
                          IN  Subtree(r, c.key)
                                 = (k + 1)..(k + Cardinality(Subtree(r, c.key))))
    /\ [][\A r \in Reqs :
            (/\ Len(calls'[r]) = Len(calls[r]) + 1
             /\ calls'[r][Len(calls'[r])].call = "rel"
             /\ calls'[r][Len(calls'[r])].from # <<>>
             /\ classShows(args[r].class, classCache'[r][calls'[r][Len(calls'[r])].key]))
            => LET c == calls'[r][Len(calls'[r])]
                   n == Len(allRels'[r])
               IN  /\ n > Len(allRels[r])
                   /\ allRels'[r][n].sys_id = c.key
                   /\ allRels'[r][n].depth = c.depth - 1
                   /\ origin'[r][n].currentId = c.from]_vars

\* a call has ended with edges of a deeper expansion between two edges of the
\* root's expansion
C30_Witness ==
    \E r \in Reqs :
        /\ Succeeded(r)
        /\ \E k, x, l \in DOMAIN allRels[r] :
              /\ k < x /\ x < l
              /\ origin[r][k].currentId = root[r].sys_id
              /\ origin[r][l].currentId = root[r].sys_id
              /\ origin[r][x].currentId = allRels[r][k].sys_id
              /\ allRels[r][x].depth = 2

\* C10: no reported edge has otherId equal to the node that was being
\* expanded when it was found; a row whose parent and child are both the
\* expanding node gives no edge, no class lookup and no recursion.
C10_SelfLoopGuard ==
    \A r \in Reqs :
        /\ \A k \in DOMAIN allRels[r] : allRels[r][k].sys_id # origin[r][k].currentId
        /\ \A k \in DOMAIN calls[r] :
              calls[r][k].call \in {"rel", "ci"} => calls[r][k].key # calls[r][k].from

\* C10 witness: the expansion of A has processed a row from A to A.
C10_Witness ==
    \E r \in Reqs :
        /\ Succeeded(r) /\ A \in Expanded(r)
        /\ \E k \in DOMAIN rows :
              rows[k].parent.value = A /\ rows[k].child.value = A
        /\ ~Fails("rel", A) /\ ~NoBody("rel", A)
        /\ allRels[r] # <<>>

====
